---- MODULE Spec2Model ----
(***************************************************************************)
(* A model of tor-nodes.go (TOR History): the import of Onionoo consensus  *)
(* documents into the relay history database.                              *)
(*                                                                         *)
(* Representation of Go values:                                            *)
(*   - a string that is only copied and compared for equality is a TLA+    *)
(*     string ("" is the empty string);                                    *)
(*   - a string whose bytes the program inspects (Contact, timestamps,     *)
(*     file names, JSON text) is a sequence of one-character strings       *)
(*     (<<>> is the empty string);                                         *)
(*   - a slice or interface value that may be nil is Nil or Some(v).       *)
(***************************************************************************)
EXTENDS Integers, Sequences, FiniteSets, TLC

\* ------------------------------------------------------------------------
\* Go values
\* ------------------------------------------------------------------------

Nil == <<>>

Some(v) == <<v>>

IsNil(o) == Len(o) = 0

Val(o) == o[1]

Range(s) == {s[i] : i \in 1..Len(s)}

\* The byte order of the characters the model's strings are made of (ASCII).
AsciiOrder ==
    <<"\t", " ", "-", ".", "0", "1", "2", "3", "4", "5", "6", "7", "8", "9", ":",
      "A", "B", "C", "D", "E", "F", "G", "H", "I", "J", "K", "L", "M",
      "N", "O", "P", "Q", "R", "S", "T", "U", "V", "W", "X", "Y", "Z", "_",
      "a", "b", "c", "d", "e", "f", "g", "h", "i", "j", "k", "l", "m",
      "n", "o", "p", "q", "r", "s", "t", "u", "v", "w", "x", "y", "z">>

Code(c) == CHOOSE i \in 1..Len(AsciiOrder) : AsciiOrder[i] = c

DigitChars == <<"0", "1", "2", "3", "4", "5", "6", "7", "8", "9">>

IsDigit(c) == \E i \in 1..10 : DigitChars[i] = c

DigitVal(c) == (CHOOSE i \in 1..10 : DigitChars[i] = c) - 1

UpperLetters ==
    <<"A", "B", "C", "D", "E", "F", "G", "H", "I", "J", "K", "L", "M",
      "N", "O", "P", "Q", "R", "S", "T", "U", "V", "W", "X", "Y", "Z">>

LowerLetters ==
    <<"a", "b", "c", "d", "e", "f", "g", "h", "i", "j", "k", "l", "m",
      "n", "o", "p", "q", "r", "s", "t", "u", "v", "w", "x", "y", "z">>

ToLowerChar(c) ==
    IF \E i \in 1..26 : UpperLetters[i] = c
    THEN LowerLetters[CHOOSE i \in 1..26 : UpperLetters[i] = c]
    ELSE c

\* strings.ToLower
ToLower(s) == [i \in 1..Len(s) |-> ToLowerChar(s[i])]

IsSpace(c) == c \in {" ", "\t"}

\* strings.TrimSpace
TrimSpace(s) ==
    IF \A i \in 1..Len(s) : IsSpace(s[i])
    THEN <<>>
    ELSE LET first == CHOOSE i \in 1..Len(s) :
                        /\ ~IsSpace(s[i])
                        /\ \A j \in 1..(i - 1) : IsSpace(s[j])
             last == CHOOSE i \in 1..Len(s) :
                        /\ ~IsSpace(s[i])
                        /\ \A j \in (i + 1)..Len(s) : IsSpace(s[j])
         IN  SubSeq(s, first, last)

\* Go's s < t on strings: the byte-wise lexicographic order.
StrLess(s, t) ==
    \E k \in 0..Len(s) :
        /\ k <= Len(t)
        /\ \A i \in 1..k : s[i] = t[i]
        /\ \/ k = Len(s) /\ k < Len(t)
           \/ k < Len(s) /\ k < Len(t) /\ Code(s[k + 1]) < Code(t[k + 1])

\* ------------------------------------------------------------------------
\* encoding/json of the three policy fields
\* ------------------------------------------------------------------------

RECURSIVE JoinTokens(_)
JoinTokens(items) ==
    IF Len(items) = 0 THEN <<>>
    ELSE IF Len(items) = 1 THEN <<items[1]>>
    ELSE <<items[1], ",">> \o JoinTokens(Tail(items))

\* json.Marshal of a []string: null for a nil slice, otherwise the array of
\* its (quoted) elements.  The text is kept as its sequence of tokens.
jsonMarshalStrings(p) ==
    IF IsNil(p) THEN <<"null">> ELSE <<"[">> \o JoinTokens(Val(p)) \o <<"]">>

\* json.Marshal of an exit policy summary (interface{}): null when absent,
\* otherwise the decoded object {"accept": [...]} or {"reject": [...]}, held
\* as <<key, ports>>.
jsonMarshalSummary(p) ==
    IF IsNil(p) THEN <<"null">>
    ELSE <<"{", Val(p)[1], ":", "[">> \o JoinTokens(Val(p)[2]) \o <<"]", "}">>

\* ------------------------------------------------------------------------
\* Timestamps: time.Parse, the formats, fmt.Sprintf
\* ------------------------------------------------------------------------

\* A time.Time value, as the calendar fields the program reads from it.
Time(y, mo, d, h, mi, sec) == [Y |-> y, Mo |-> mo, D |-> d, h |-> h, mi |-> mi, s |-> sec]

\* A layout is the sequence of its chunks: "Y4" (2006), "M2" (01), "D2" (02),
\* "h2" (15), "m2" (04), "s2" (05), a chunk of another kind (a month or day
\* name, a zone, a two digit year, ...) written as the layout writes it, or a
\* literal character.
LayoutChunks ==
    [f1  |-> <<"Y4", "-", "M2", "-", "D2", "_", "h2", ":", "m2", ":", "s2">>,
     f2  |-> <<"Y4", "-", "M2", "-", "D2", "_", "h2", ":", "m2">>,
     f3  |-> <<"Y4", "M2", "D2", "h2", "m2", "s2">>,
     f4  |-> <<"Y4", "M2", "D2", "h2", "m2">>,
     f5  |-> <<"Y4", "-", "M2", "-", "D2", "-", "h2", "-", "m2", "-", "s2">>,
     f6  |-> <<"Y4", "-", "M2", "-", "D2", "-", "h2", "-", "m2">>,
     RFC3339 |-> <<"Y4", "-", "M2", "-", "D2", "T", "h2", ":", "m2", ":", "s2", "Z07:00">>,
     RFC3339Nano |-> <<"Y4", "-", "M2", "-", "D2", "T", "h2", ":", "m2", ":", "s2",
                       ".999999999", "Z07:00">>,
     ANSIC |-> <<"Mon", " ", "Jan", " ", "_2", " ", "h2", ":", "m2", ":", "s2", " ", "Y4">>,
     UnixDate |-> <<"Mon", " ", "Jan", " ", "_2", " ", "h2", ":", "m2", ":", "s2", " ",
                    "MST", " ", "Y4">>,
     RFC822 |-> <<"D2", " ", "Jan", " ", "06", " ", "h2", ":", "m2", " ", "MST">>,
     RFC822Z |-> <<"D2", " ", "Jan", " ", "06", " ", "h2", ":", "m2", " ", "-0700">>,
     RFC850 |-> <<"Monday", ",", " ", "D2", "-", "Jan", "-", "06", " ", "h2", ":", "m2",
                  ":", "s2", " ", "MST">>,
     RFC1123 |-> <<"Mon", ",", " ", "D2", " ", "Jan", " ", "Y4", " ", "h2", ":", "m2",
                   ":", "s2", " ", "MST">>,
     RFC1123Z |-> <<"Mon", ",", " ", "D2", " ", "Jan", " ", "Y4", " ", "h2", ":", "m2",
                    ":", "s2", " ", "-0700">>,
     RubyDate |-> <<"Mon", " ", "Jan", " ", "D2", " ", "h2", ":", "m2", ":", "s2", " ",
                    "-0700", " ", "Y4">>]

\* The formats tried when no format is given, in the order of the list.
DefaultFormats ==
    <<"f1", "f2", "f3", "f4", "f5", "f6", "RFC3339", "RFC3339Nano", "ANSIC", "UnixDate",
      "RFC822", "RFC822Z", "RFC850", "RFC1123", "RFC1123Z", "RubyDate">>

NumericChunks == {"Y4", "M2", "D2", "h2", "m2", "s2"}

\* The chunks that stand for names, zones and the like.  The timestamp strings
\* of the model are made of digits and of "-", "_", ":" only, so none of them
\* is matched.
OtherChunks ==
    {"Z07:00", ".999999999", "Mon", "Monday", "Jan", "_2", "MST", "06", "-0700"}

AllDigits(str, from, to) ==
    /\ to <= Len(str)
    /\ \A i \in from..to : IsDigit(str[i])

RECURSIVE Atoi(_, _, _)
Atoi(str, from, to) ==
    IF to < from THEN 0 ELSE 10 * Atoi(str, from, to - 1) + DigitVal(str[to])

\* The number of digits the chunk takes at pos, 0 when it does not match:
\* four for the year, two for month, day, minute and second, one or two for
\* the hour.
ChunkWidth(chunk, str, pos) ==
    IF chunk = "Y4" THEN (IF AllDigits(str, pos, pos + 3) THEN 4 ELSE 0)
    ELSE IF chunk = "h2"
         THEN (IF AllDigits(str, pos, pos + 1) THEN 2
               ELSE IF AllDigits(str, pos, pos) THEN 1 ELSE 0)
    ELSE (IF AllDigits(str, pos, pos + 1) THEN 2 ELSE 0)

IsLeap(y) == y % 4 = 0 /\ (y % 100 # 0 \/ y % 400 = 0)

DaysIn(mo, y) ==
    IF mo = 2 THEN (IF IsLeap(y) THEN 29 ELSE 28)
    ELSE IF mo \in {4, 6, 9, 11} THEN 30 ELSE 31

ValidTime(t) ==
    /\ t.Mo \in 1..12
    /\ t.D \in 1..DaysIn(t.Mo, t.Y)
    /\ t.h \in 0..23
    /\ t.mi \in 0..59
    /\ t.s \in 0..59

SetField(t, chunk, v) ==
    IF chunk = "Y4" THEN [t EXCEPT !.Y = v]
    ELSE IF chunk = "M2" THEN [t EXCEPT !.Mo = v]
    ELSE IF chunk = "D2" THEN [t EXCEPT !.D = v]
    ELSE IF chunk = "h2" THEN [t EXCEPT !.h = v]
    ELSE IF chunk = "m2" THEN [t EXCEPT !.mi = v]
    ELSE [t EXCEPT !.s = v]

RECURSIVE ParseFrom(_, _, _, _, _)
ParseFrom(chunks, k, str, pos, t) ==
    IF k > Len(chunks)
    THEN (IF pos = Len(str) + 1 /\ ValidTime(t) THEN Some(t) ELSE Nil)
    ELSE IF chunks[k] \in NumericChunks
         THEN LET w == ChunkWidth(chunks[k], str, pos)
              IN  IF w = 0 THEN Nil
                  ELSE ParseFrom(chunks, k + 1, str, pos + w,
                                 SetField(t, chunks[k], Atoi(str, pos, pos + w - 1)))
    ELSE IF chunks[k] \in OtherChunks THEN Nil
    ELSE IF pos <= Len(str) /\ str[pos] = chunks[k]
         THEN ParseFrom(chunks, k + 1, str, pos + 1, t)
         ELSE Nil

\* time.Parse(f, ts): Some(t), or Nil for an error.
TimeParse(f, ts) == ParseFrom(LayoutChunks[f], 1, ts, 1, Time(0, 1, 1, 0, 0, 0))

RECURSIVE PadDigits(_, _)
PadDigits(n, width) ==
    IF width <= 1 /\ n < 10 THEN <<DigitChars[n + 1]>>
    ELSE Append(PadDigits(n \div 10, width - 1), DigitChars[(n % 10) + 1])

\* fmt.Sprintf("%04d%02d%02d%02d%02d%02d", ...)
FormatDLTS(t) ==
    PadDigits(t.Y, 4) \o PadDigits(t.Mo, 2) \o PadDigits(t.D, 2)
        \o PadDigits(t.h, 2) \o PadDigits(t.mi, 2) \o PadDigits(t.s, 2)

\* getTimeFormats: the given format alone, or the list.
getTimeFormats(ConsensusDLT_fmt) ==
    IF ConsensusDLT_fmt # "" THEN <<ConsensusDLT_fmt>> ELSE DefaultFormats

\* matchTimestampToFormats: the first candidate, in order, that some format
\* parses, under the first format that parses it; Nil when there is none.
RECURSIVE matchTimestampToFormats(_, _)
matchTimestampToFormats(ts_matches, formats) ==
    IF Len(ts_matches) = 0 THEN Nil
    ELSE LET ts == ts_matches[1]
             ok == {i \in 1..Len(formats) : ~IsNil(TimeParse(formats[i], ts))}
         IN  IF ok # {}
             THEN TimeParse(formats[CHOOSE i \in ok : \A j \in ok : i <= j], ts)
             ELSE matchTimestampToFormats(Tail(ts_matches), formats)

\* regexp `[0-9][0-9-_:]+[0-9]`, FindAllString(filename, -1): the leftmost
\* matches, each as long as it can be, one after the other.
IsStampChar(c) == IsDigit(c) \/ c \in {"-", "_", ":"}

\* The end of the match that starts at i, 0 when none does: the run of stamp
\* characters from i, cut back to its last digit, three characters at least.
StampEnd(name, i) ==
    IF ~IsDigit(name[i]) THEN 0
    ELSE LET ends == {j \in (i + 2)..Len(name) :
                        /\ IsDigit(name[j])
                        /\ \A k \in (i + 1)..(j - 1) : IsStampChar(name[k])}
         IN  IF ends = {} THEN 0 ELSE CHOOSE j \in ends : \A k \in ends : k <= j

RECURSIVE FindStamps(_, _)
FindStamps(name, i) ==
    IF i > Len(name) THEN <<>>
    ELSE LET e == StampEnd(name, i)
         IN  IF e = 0 THEN FindStamps(name, i + 1)
             ELSE <<SubSeq(name, i, e)>> \o FindStamps(name, e + 1)

\* ------------------------------------------------------------------------
\* State
\* ------------------------------------------------------------------------

VARIABLES
    \* the process
    g_config,               \* the configuration left by init()
    glob,                   \* what filepath.Glob(g_config.Tor.Filename) yields
    clock,                  \* the last reading of the system clock
    pc,                     \* where main is
    filenames,              \* main: filenames
    num,                    \* main: the index of the file being imported
    g_consensusDLTS,
    tor_response,           \* main: tor_response.Relays
    previous_tor_response,  \* main: previous_tor_response.Relays
    idx,                    \* processTorResponse: the position in the Relays
    relay,                  \* the relay being added or refreshed, Nil if none
    ids,                    \* addNewTorRelayToDB: the ids value2id returned
    work,                   \* the <<role, address>> calls of the address loops
    widx,                   \* the position in work
    g_db,                   \* "nil", or "open" (initialized)
    lrd,                    \* g_db.lrd, fingerprint -> entry
    memo,                   \* the value caches of g_db, class -> texts held
    \* the database
    torRelays,              \* the TorRelays rows; a row's id is its index
    ipRows,                 \* the address rows of the three roles
    dict,                   \* the value tables, class -> texts; an id is an index
    torQueries,             \* the TorQueries rows
    \* history, for the statement of properties only
    events,                 \* one entry per relay handed to the database logic
    snaps,                  \* one entry per consensus document read
    oplog,                  \* the cache and import steps of the run, in order
    \* the two functions checked on their own
    m_relay,    \* recordsMatch: the relay argument
    m_lrdfp,    \* recordsMatch: the cache entry argument
    m_res,      \* recordsMatch: Nil before the call, then Some(result)
    d_old,      \* extractNewAndUpdatedRelays: the old array
    d_new,      \* extractNewAndUpdatedRelays: the new array
    d_res       \* extractNewAndUpdatedRelays: Nil before the call, then Some(result)

matchVars == <<m_relay, m_lrdfp, m_res>>

deltaVars == <<d_old, d_new, d_res>>

envVars == <<g_config, glob, clock>>

mainVars == <<filenames, num, g_consensusDLTS, tor_response, previous_tor_response>>

relayVars == <<idx, relay, ids, work, widx>>

cacheVars == <<g_db, lrd, memo>>

dbVars == <<torRelays, ipRows, dict, torQueries>>

histVars == <<events, snaps, oplog>>

runVars == <<pc, envVars, mainVars, relayVars, cacheVars, dbVars, histVars>>

vars == <<runVars, matchVars, deltaVars>>

\* ------------------------------------------------------------------------
\* TorRelayDetails and the entries of the latest relay data cache (g_db.lrd)
\* ------------------------------------------------------------------------

\* A TorRelayDetails value.  Last_seen stands for the fields that take no part
\* in the comparison of recordsMatch and are only copied (Last_seen, Running,
\* the bandwidth figures, ...).
Relay(fp, nick, cc, city, platform, version, contact, lastChanged, firstSeen, exitp, exitps, exitps6, ors, exits, dir, flags, lastSeen) ==
    [Fingerprint |-> fp, Nickname |-> nick, Country |-> cc, Country_name |-> cc,
     Region_name |-> "", City_name |-> city, Platform |-> platform,
     Version |-> version, Contact |-> contact,
     Last_changed_address_or_port |-> lastChanged, First_seen |-> firstSeen,
     Exit_policy |-> exitp, Exit_policy_summary |-> exitps,
     Exit_policy_v6_summary |-> exitps6,
     Or_addresses |-> ors, Exit_addresses |-> exits, Dir_address |-> dir,
     Flags |-> flags, Last_seen |-> lastSeen]

\* What g_db.lrd[fp] yields for a fingerprint the cache does not hold: the nil
\* map, every lookup in which gives the empty string.  Row ids are held as
\* numbers, 0 standing for the empty string.
NoEntry ==
    [Fingerprint |-> "", Nickname |-> "", Country |-> "", CityName |-> "",
     PlatformName |-> "", VersionName |-> "", ContactName |-> <<>>,
     Last_changed_address_or_port |-> "", First_seen |-> "",
     ExitPolicy |-> <<>>, ExitPolicySummary |-> <<>>, ExitPolicyV6Summary |-> <<>>,
     RecordLastSeen |-> <<>>, id |-> 0, ID_NodeFingerprints |-> 0]

LrdGet(cache, fp) == IF fp \in DOMAIN cache THEN cache[fp] ELSE NoEntry

\* recordsMatch (the decision; the printing is left out)
mutRecordsMatchNoPolicies(r, lrdfp) ==
    /\ r.Nickname = lrdfp.Nickname
    /\ r.Country = lrdfp.Country
    /\ r.City_name = lrdfp.CityName
    /\ r.Platform = lrdfp.PlatformName
    /\ r.Version = lrdfp.VersionName
    /\ ToLower(r.Contact) = ToLower(lrdfp.ContactName)
    /\ r.Last_changed_address_or_port = lrdfp.Last_changed_address_or_port
    /\ r.First_seen = lrdfp.First_seen

mutRecordsMatchContactExact(r, lrdfp) ==
    /\ r.Nickname = lrdfp.Nickname
    /\ r.Country = lrdfp.Country
    /\ r.City_name = lrdfp.CityName
    /\ r.Platform = lrdfp.PlatformName
    /\ r.Version = lrdfp.VersionName
    /\ r.Contact = lrdfp.ContactName
    /\ r.Last_changed_address_or_port = lrdfp.Last_changed_address_or_port
    /\ r.First_seen = lrdfp.First_seen
    /\ jsonMarshalStrings(r.Exit_policy) = lrdfp.ExitPolicy
    /\ jsonMarshalSummary(r.Exit_policy_summary) = lrdfp.ExitPolicySummary
    /\ jsonMarshalSummary(r.Exit_policy_v6_summary) = lrdfp.ExitPolicyV6Summary

mutRecordsMatchNoCity(r, lrdfp) ==
    /\ r.Nickname = lrdfp.Nickname
    /\ r.Country = lrdfp.Country
    /\ r.Platform = lrdfp.PlatformName
    /\ r.Version = lrdfp.VersionName
    /\ ToLower(r.Contact) = ToLower(lrdfp.ContactName)
    /\ r.Last_changed_address_or_port = lrdfp.Last_changed_address_or_port
    /\ r.First_seen = lrdfp.First_seen
    /\ jsonMarshalStrings(r.Exit_policy) = lrdfp.ExitPolicy
    /\ jsonMarshalSummary(r.Exit_policy_summary) = lrdfp.ExitPolicySummary
    /\ jsonMarshalSummary(r.Exit_policy_v6_summary) = lrdfp.ExitPolicyV6Summary

recordsMatch(r, lrdfp) ==
    /\ r.Nickname = lrdfp.Nickname
    /\ r.Country = lrdfp.Country
    /\ r.City_name = lrdfp.CityName
    /\ r.Platform = lrdfp.PlatformName
    /\ r.Version = lrdfp.VersionName
    /\ ToLower(r.Contact) = ToLower(lrdfp.ContactName)
    /\ r.Last_changed_address_or_port = lrdfp.Last_changed_address_or_port
    /\ r.First_seen = lrdfp.First_seen
    /\ jsonMarshalStrings(r.Exit_policy) = lrdfp.ExitPolicy
    /\ jsonMarshalSummary(r.Exit_policy_summary) = lrdfp.ExitPolicySummary
    /\ jsonMarshalSummary(r.Exit_policy_v6_summary) = lrdfp.ExitPolicyV6Summary

\* ------------------------------------------------------------------------
\* extractNewAndUpdatedRelays
\* ------------------------------------------------------------------------

\* fp2id after the first loop: each fingerprint of old mapped to the index of
\* its last occurrence (a later assignment overwrites an earlier one).
Fp2Id(old) ==
    [fp \in {old[i].Fingerprint : i \in 1..Len(old)} |->
        CHOOSE i \in 1..Len(old) :
            /\ old[i].Fingerprint = fp
            /\ \A j \in (i + 1)..Len(old) : old[j].Fingerprint # fp]

MapDelete(m, k) == [x \in DOMAIN m \ {k} |-> m[x]]

\* The second loop, from index k of new on.  reflect.DeepEqual of two
\* TorRelayDetails is the equality of the records (nil and empty slices are
\* different values here as they are for DeepEqual).
RECURSIVE ExtractLoop(_, _, _, _, _)
ExtractLoop(old, new, k, fp2id, result) ==
    IF k > Len(new) THEN result
    ELSE LET n == new[k]
         IN  IF n.Fingerprint \in DOMAIN fp2id
             THEN IF n = old[fp2id[n.Fingerprint]]
                  THEN ExtractLoop(old, new, k + 1,
                                   MapDelete(fp2id, n.Fingerprint), result)
                  ELSE ExtractLoop(old, new, k + 1, fp2id, Append(result, n))
             ELSE ExtractLoop(old, new, k + 1, fp2id, Append(result, n))

\* A version that drops every record whose fingerprint is known, equal or not.
RECURSIVE MutExtractLoopFpOnly(_, _, _, _, _)
MutExtractLoopFpOnly(old, new, k, fp2id, result) ==
    IF k > Len(new) THEN result
    ELSE LET n == new[k]
         IN  IF n.Fingerprint \in DOMAIN fp2id
             THEN MutExtractLoopFpOnly(old, new, k + 1, fp2id, result)
             ELSE MutExtractLoopFpOnly(old, new, k + 1, fp2id, Append(result, n))

\* A version that puts each record it keeps in front of the ones kept before.
RECURSIVE MutExtractLoopPrepend(_, _, _, _, _)
MutExtractLoopPrepend(old, new, k, fp2id, result) ==
    IF k > Len(new) THEN result
    ELSE LET n == new[k]
         IN  IF n.Fingerprint \in DOMAIN fp2id
             THEN IF n = old[fp2id[n.Fingerprint]]
                  THEN MutExtractLoopPrepend(old, new, k + 1,
                                             MapDelete(fp2id, n.Fingerprint), result)
                  ELSE MutExtractLoopPrepend(old, new, k + 1, fp2id, <<n>> \o result)
             ELSE MutExtractLoopPrepend(old, new, k + 1, fp2id, <<n>> \o result)

mutExtractPrepends(old, new) == MutExtractLoopPrepend(old, new, 1, Fp2Id(old), <<>>)

mutExtractFingerprintOnly(old, new) == MutExtractLoopFpOnly(old, new, 1, Fp2Id(old), <<>>)

extractNewAndUpdatedRelays(old, new) == ExtractLoop(old, new, 1, Fp2Id(old), <<>>)

\* ------------------------------------------------------------------------
\* Inputs of the two functions checked on their own
\* ------------------------------------------------------------------------

MaxFieldDiffs == 2

MaxDeltaLen == 3

Chars(a, b, c) == <<a, b, c>>

TypicalRelay ==
    Relay("A", "n1", "us", "c1", "p1", "v1", Chars("B", "o", "b"), "t1", "t0",
          Some(<<"reject *:*">>), Some(<<"reject", <<"1-65535">>>>), Nil,
          <<"o1">>, <<>>, "", <<"Running">>, "s1")

EmptyRelay ==
    Relay("A", "", "", "", "", "", <<>>, "", "",
          Nil, Nil, Nil, <<>>, <<>>, "", <<>>, "")

MatchRelays ==
    {[TypicalRelay EXCEPT !.Contact = c] :
        c \in {Chars("B", "o", "b"), Chars("b", "o", "b"), Chars("B", "O", "B"),
               Chars("b", "o", "x")}}
    \cup {EmptyRelay, [TypicalRelay EXCEPT !.Exit_policy = Some(<<>>)]}

CompEntryFields ==
    {"Nickname", "Country", "CityName", "PlatformName", "VersionName",
     "ContactName", "Last_changed_address_or_port", "First_seen",
     "ExitPolicy", "ExitPolicySummary", "ExitPolicyV6Summary"}

\* A cache entry that holds the comparable fields of r.
EntryFor(r) ==
    [NoEntry EXCEPT
        !.Fingerprint = r.Fingerprint, !.Nickname = r.Nickname,
        !.Country = r.Country, !.CityName = r.City_name,
        !.PlatformName = r.Platform, !.VersionName = r.Version,
        !.ContactName = r.Contact,
        !.Last_changed_address_or_port = r.Last_changed_address_or_port,
        !.First_seen = r.First_seen,
        !.ExitPolicy = jsonMarshalStrings(r.Exit_policy),
        !.ExitPolicySummary = jsonMarshalSummary(r.Exit_policy_summary),
        !.ExitPolicyV6Summary = jsonMarshalSummary(r.Exit_policy_v6_summary)]

AltEntry ==
    [EntryFor(TypicalRelay) EXCEPT
        !.Nickname = "n2", !.Country = "de", !.CityName = "c2",
        !.PlatformName = "p2", !.VersionName = "v2",
        !.ContactName = Chars("a", "l", "f"),
        !.Last_changed_address_or_port = "t2", !.First_seen = "t3",
        !.ExitPolicy = jsonMarshalStrings(Some(<<"accept *:80", "reject *:*">>)),
        !.ExitPolicySummary = jsonMarshalSummary(Some(<<"accept", <<"80">>>>)),
        !.ExitPolicyV6Summary = jsonMarshalSummary(Some(<<"accept", <<"80", "443">>>>))]

Altered(e, D) == [f \in DOMAIN e |-> IF f \in D THEN AltEntry[f] ELSE e[f]]

MatchEntries ==
    {NoEntry} \cup
    {Altered(EntryFor(r), D) :
        r \in MatchRelays,
        D \in {X \in SUBSET CompEntryFields : Cardinality(X) <= MaxFieldDiffs}}

DeltaRelays ==
    {TypicalRelay,
     [TypicalRelay EXCEPT !.Last_seen = "s2"],
     [TypicalRelay EXCEPT !.Nickname = "n2"],
     [TypicalRelay EXCEPT !.Fingerprint = "B"]}

RECURSIVE SeqsUpTo(_, _)
SeqsUpTo(S, n) ==
    IF n = 0 THEN {<<>>}
    ELSE LET shorter == SeqsUpTo(S, n - 1)
         IN  shorter \cup {Append(q, x) : q \in {t \in shorter : Len(t) = n - 1}, x \in S}

DeltaArrays == SeqsUpTo(DeltaRelays, MaxDeltaLen)

\* ------------------------------------------------------------------------
\* The database (g_db): the value tables, TorRelays, the address tables
\* ------------------------------------------------------------------------

Classes ==
    {"fingerprint", "country", "region", "city", "platform", "version", "contact",
     "exitp", "exitps", "exitps6"}

\* The classes whose texts are held as sequences.
SeqClasses == {"contact", "exitp", "exitps", "exitps6"}

EmptyText(class) == IF class \in SeqClasses THEN <<>> ELSE ""

IndexOf(seq, x) == CHOOSE i \in 1..Len(seq) : seq[i] = x

\* The id value2id(class, text) returns: 0, the id of no value, for the empty
\* text; otherwise the id of the text in the table, which holds it after the
\* call.
Value2Id(table, class, text) ==
    IF text = EmptyText(class) THEN 0
    ELSE IF text \in Range(table[class]) THEN IndexOf(table[class], text)
    ELSE Len(table[class]) + 1

\* The table after value2id(class, text): the text is looked up in the table,
\* and added to it, only when the cache of the class does not hold it.
TableAfter(table, held, class, text) ==
    IF text = EmptyText(class) \/ text \in held[class] \/ text \in Range(table[class])
    THEN table
    ELSE [table EXCEPT ![class] = Append(@, text)]

\* The cache of the class after value2id(class, text).
HeldAfter(held, class, text) ==
    IF text = EmptyText(class) THEN held
    ELSE [held EXCEPT ![class] = @ \cup {text}]

\* The text an id stands for.
TextOf(table, class, id) == IF id = 0 THEN EmptyText(class) ELSE table[class][id]

\* g_db.initCaches and g_db.initCountryNameCache: the value caches are loaded
\* from the tables.
initCaches(table) == [c \in Classes |-> Range(table[c])]

\* s <= t for timestamps
StrLeq(s, t) == ~StrLess(t, s)

\* The row of TorRelays an entry of the cache is read from.
EntryOfRow(table, rows, id) ==
    LET row == rows[id]
    IN  [Fingerprint |-> TextOf(table, "fingerprint", row.fpid),
         Nickname |-> row.nick,
         Country |-> TextOf(table, "country", row.countryid),
         CityName |-> TextOf(table, "city", row.cityid),
         PlatformName |-> TextOf(table, "platform", row.platformid),
         VersionName |-> TextOf(table, "version", row.versionid),
         ContactName |-> TextOf(table, "contact", row.contactid),
         Last_changed_address_or_port |-> row.lastChanged,
         First_seen |-> row.firstSeen,
         ExitPolicy |-> TextOf(table, "exitp", row.exitp),
         ExitPolicySummary |-> TextOf(table, "exitps", row.exitps),
         ExitPolicyV6Summary |-> TextOf(table, "exitps6", row.exitps6),
         RecordLastSeen |-> row.RecordLastSeen,
         id |-> id,
         ID_NodeFingerprints |-> row.fpid]

\* The latest row of a fingerprint as of a timestamp: among its rows inserted
\* no later than asOf, the one inserted last (the higher id among equals).
LatestRowAsOf(rows, fpid, asOf) ==
    LET cand == {i \in 1..Len(rows) :
                    rows[i].fpid = fpid /\ StrLeq(rows[i].RecordTimeInserted, asOf)}
    IN  CHOOSE i \in cand :
            \A j \in cand :
                \/ StrLess(rows[j].RecordTimeInserted, rows[i].RecordTimeInserted)
                \/ rows[j].RecordTimeInserted = rows[i].RecordTimeInserted /\ j <= i

\* g_db.initializeLatestRelayDataCache(&g_db.lrd, asOf): the cache is replaced
\* by the latest row, as of asOf, of every fingerprint that has one.
initializeLatestRelayDataCache(table, rows, asOf) ==
    LET fpids == {rows[i].fpid : i \in {j \in 1..Len(rows) :
                                            StrLeq(rows[j].RecordTimeInserted, asOf)}}
    IN  [fp \in {TextOf(table, "fingerprint", f) : f \in fpids} |->
            EntryOfRow(table, rows,
                       LatestRowAsOf(rows, Value2Id(table, "fingerprint", fp), asOf))]

\* g_db.updateTorRelayRLS(id, dlts): RecordLastSeen of the row is set.
updateTorRelayRLS(rows, id, dlts) ==
    IF id \in 1..Len(rows) THEN [rows EXCEPT ![id].RecordLastSeen = dlts] ELSE rows

HasAddress(rows, role, fpid, addr) ==
    \E i \in 1..Len(rows) :
        rows[i].role = role /\ rows[i].fpid = fpid /\ rows[i].addr = addr

AddressIndex(rows, role, fpid, addr) ==
    CHOOSE i \in 1..Len(rows) :
        rows[i].role = role /\ rows[i].fpid = fpid /\ rows[i].addr = addr

\* The address of a fingerprint in a role is recorded: a row is inserted when
\* there is none, and the last seen time of the row there is is advanced when
\* it is earlier.
SyncAddress(rows, role, fpid, inserted, lastSeen, addr) ==
    IF HasAddress(rows, role, fpid, addr)
    THEN LET i == AddressIndex(rows, role, fpid, addr)
         IN  IF StrLess(rows[i].RecordLastSeen, lastSeen)
             THEN [rows EXCEPT ![i].RecordLastSeen = lastSeen]
             ELSE rows
    ELSE Append(rows, [role |-> role, fpid |-> fpid, addr |-> addr,
                       RecordTimeInserted |-> inserted, RecordLastSeen |-> lastSeen])

\* g_db.addToIP(role, fpid, inserted, lastSeen, addr)
addToIP(rows, role, fpid, inserted, lastSeen, addr) ==
    SyncAddress(rows, role, fpid, inserted, lastSeen, addr)

\* g_db.updateIfNeededRelayAddressRLS(role, fpid, dlts, addr)
updateIfNeededRelayAddressRLS(rows, role, fpid, dlts, addr) ==
    SyncAddress(rows, role, fpid, dlts, dlts, addr)

\* ------------------------------------------------------------------------
\* The functions of tor-nodes.go
\* ------------------------------------------------------------------------

\* allStringsInSetMatch returning true as soon as one needle is in the set.
mutAllStringsOneMatch(needles, set) ==
    IF Len(needles) = 0
    THEN TRUE
    ELSE \E i \in 1..Len(needles) : \E j \in 1..Len(set) : set[j] = needles[i]

\* allStringsInSetMatch
allStringsInSetMatch(needles, set) ==
    IF Len(needles) = 0 THEN TRUE
    ELSE \A i \in 1..Len(needles) : \E j \in 1..Len(set) : set[j] = needles[i]

\* cleanupRelayStruct
cleanupRelayStruct(pr) ==
    [pr EXCEPT
        !.Nickname = "", !.Country = "", !.Country_name = "", !.Region_name = "",
        !.City_name = "", !.Platform = "", !.Version = "", !.Contact = <<>>,
        !.Last_changed_address_or_port = "", !.First_seen = "", !.Fingerprint = "",
        !.Exit_policy = Nil, !.Exit_policy_summary = Nil,
        !.Exit_policy_v6_summary = Nil]

\* A slice field of a decoded relay: nil when the document leaves it out.
SliceOf(seq) == IF Len(seq) = 0 THEN Nil ELSE Some(seq)

\* The value2id calls of addNewTorRelayToDB, in their order: <<class, text>>.
\* normalizeCountryID is the call for the country code.
IdCalls(r) ==
    <<<<"fingerprint", r.Fingerprint>>, <<"country", r.Country>>,
      <<"region", r.Region_name>>, <<"city", r.City_name>>,
      <<"platform", r.Platform>>, <<"version", r.Version>>,
      <<"contact", r.Contact>>,
      <<"exitp", jsonMarshalStrings(r.Exit_policy)>>,
      <<"exitps", jsonMarshalSummary(r.Exit_policy_summary)>>,
      <<"exitps6", jsonMarshalSummary(r.Exit_policy_v6_summary)>>>>

RECURSIVE TableAfterCalls(_, _, _)
TableAfterCalls(table, held, calls) ==
    IF Len(calls) = 0 THEN table
    ELSE TableAfterCalls(TableAfter(table, held, calls[1][1], calls[1][2]),
                         HeldAfter(held, calls[1][1], calls[1][2]), Tail(calls))

RECURSIVE HeldAfterCalls(_, _)
HeldAfterCalls(held, calls) ==
    IF Len(calls) = 0 THEN held
    ELSE HeldAfterCalls(HeldAfter(held, calls[1][1], calls[1][2]), Tail(calls))

\* The row with one fixed time, not that of the document, as the time it was
\* inserted.
mutNewRowInsertedAtFixedTime(table, r, dlts) ==
    [fpid |-> Value2Id(table, "fingerprint", r.Fingerprint),
     countryid |-> Value2Id(table, "country", r.Country),
     regionid |-> Value2Id(table, "region", r.Region_name),
     cityid |-> Value2Id(table, "city", r.City_name),
     platformid |-> Value2Id(table, "platform", r.Platform),
     versionid |-> Value2Id(table, "version", r.Version),
     contactid |-> Value2Id(table, "contact", r.Contact),
     exitp |-> Value2Id(table, "exitp", jsonMarshalStrings(r.Exit_policy)),
     exitps |-> Value2Id(table, "exitps", jsonMarshalSummary(r.Exit_policy_summary)),
     exitps6 |-> Value2Id(table, "exitps6", jsonMarshalSummary(r.Exit_policy_v6_summary)),
     nick |-> r.Nickname,
     lastChanged |-> r.Last_changed_address_or_port,
     firstSeen |-> r.First_seen,
     RecordTimeInserted |-> FormatDLTS(Time(2023, 1, 1, 0, 0, 0)),
     RecordLastSeen |-> dlts,
     jsFlags |-> jsonMarshalStrings(SliceOf(r.Flags)),
     jsRelay |-> cleanupRelayStruct(r)]

\* The row addNewTorRelayToDB inserts into TorRelays.  jsRelay, the JSON text
\* of the relay after cleanupRelayStruct, is held as that relay.
NewRow(table, r, dlts) ==
    [fpid |-> Value2Id(table, "fingerprint", r.Fingerprint),
     countryid |-> Value2Id(table, "country", r.Country),
     regionid |-> Value2Id(table, "region", r.Region_name),
     cityid |-> Value2Id(table, "city", r.City_name),
     platformid |-> Value2Id(table, "platform", r.Platform),
     versionid |-> Value2Id(table, "version", r.Version),
     contactid |-> Value2Id(table, "contact", r.Contact),
     exitp |-> Value2Id(table, "exitp", jsonMarshalStrings(r.Exit_policy)),
     exitps |-> Value2Id(table, "exitps", jsonMarshalSummary(r.Exit_policy_summary)),
     exitps6 |-> Value2Id(table, "exitps6", jsonMarshalSummary(r.Exit_policy_v6_summary)),
     nick |-> r.Nickname,
     lastChanged |-> r.Last_changed_address_or_port,
     firstSeen |-> r.First_seen,
     RecordTimeInserted |-> dlts,
     RecordLastSeen |-> dlts,
     jsFlags |-> jsonMarshalStrings(SliceOf(r.Flags)),
     jsRelay |-> cleanupRelayStruct(r)]

\* The calls of the address loops with the call for the Dir address made
\* whether the address is empty or not.
mutAddressCallsAlwaysDir(r) ==
    [i \in 1..Len(r.Or_addresses) |-> <<"Or", r.Or_addresses[i]>>]
        \o [i \in 1..Len(r.Exit_addresses) |-> <<"Ex", r.Exit_addresses[i]>>]
        \o <<<<"Di", r.Dir_address>>>>

\* The calls of the address loops of addNewRelayAddresses and of
\* updateRelayAddressesIfNeeded, in their order: the Or addresses, the Exit
\* addresses, the Dir address when it is not empty.
AddressCalls(r) ==
    [i \in 1..Len(r.Or_addresses) |-> <<"Or", r.Or_addresses[i]>>]
        \o [i \in 1..Len(r.Exit_addresses) |-> <<"Ex", r.Exit_addresses[i]>>]
        \o (IF r.Dir_address # "" THEN <<<<"Di", r.Dir_address>>>> ELSE <<>>)

\* Classify without the test for an equal timestamp (line 492).
mutClassifyNoEqualTest(r, lrdmap, dlts) ==
    LET e == LrdGet(lrdmap, r.Fingerprint)
    IN  IF recordsMatch(r, e)
        THEN IF StrLess(dlts, e.RecordLastSeen) THEN "UNCHANGED_STALE"
             ELSE "FRESHNESS"
        ELSE IF r.Fingerprint \in DOMAIN lrdmap THEN "CHANGED" ELSE "NEW"

\* Classify without the test for an earlier timestamp (line 494).
mutClassifyNoEarlierTest(r, lrdmap, dlts) ==
    LET e == LrdGet(lrdmap, r.Fingerprint)
    IN  IF recordsMatch(r, e)
        THEN IF dlts = e.RecordLastSeen THEN "UNCHANGED_FRESH"
             ELSE "FRESHNESS"
        ELSE IF r.Fingerprint \in DOMAIN lrdmap THEN "CHANGED" ELSE "NEW"

\* Classify with the branch of the earlier timestamp falling through to the
\* branch that adds a row.
mutClassifyStaleAddsRow(r, lrdmap, dlts) ==
    LET e == LrdGet(lrdmap, r.Fingerprint)
    IN  IF recordsMatch(r, e)
        THEN IF dlts = e.RecordLastSeen THEN "UNCHANGED_FRESH"
             ELSE IF StrLess(dlts, e.RecordLastSeen) THEN "CHANGED"
             ELSE "FRESHNESS"
        ELSE IF r.Fingerprint \in DOMAIN lrdmap THEN "CHANGED" ELSE "NEW"

\* Classify with the equal timestamp taken for a later one.
mutClassifyEqualIsLater(r, lrdmap, dlts) ==
    LET e == LrdGet(lrdmap, r.Fingerprint)
    IN  IF recordsMatch(r, e)
        THEN IF StrLess(dlts, e.RecordLastSeen) THEN "UNCHANGED_STALE"
             ELSE "FRESHNESS"
        ELSE IF r.Fingerprint \in DOMAIN lrdmap THEN "CHANGED" ELSE "NEW"

\* Classify with the addresses updated for the earlier timestamp too.
mutClassifyStaleUpdates(r, lrdmap, dlts) ==
    LET e == LrdGet(lrdmap, r.Fingerprint)
    IN  IF recordsMatch(r, e)
        THEN IF dlts = e.RecordLastSeen THEN "UNCHANGED_FRESH"
             ELSE "FRESHNESS"
        ELSE IF r.Fingerprint \in DOMAIN lrdmap THEN "CHANGED" ELSE "NEW"

\* The branch processTorResponse takes for a relay, given the cache entry of
\* its fingerprint: "NEW" and "CHANGED" add a row (no entry, another entry),
\* "UNCHANGED_FRESH" and "UNCHANGED_STALE" do nothing, "FRESHNESS" updates
\* the addresses and RecordLastSeen.
Classify(r, lrdmap, dlts) ==
    LET e == LrdGet(lrdmap, r.Fingerprint)
    IN  IF recordsMatch(r, e)
        THEN IF dlts = e.RecordLastSeen THEN "UNCHANGED_FRESH"
             ELSE IF StrLess(dlts, e.RecordLastSeen) THEN "UNCHANGED_STALE"
             ELSE "FRESHNESS"
        ELSE IF r.Fingerprint \in DOMAIN lrdmap THEN "CHANGED" ELSE "NEW"

\* getConsensusDLTimestamp(filename): Some(timestamp), or Nil when it ends the
\* program (log.Fatalln).  now is the reading of the system clock.
\* getConsensusDLTimestamp taking the system time when no timestamp is found.
mutGetConsensusDLTimestampFallsBack(cfg, filename, now) ==
    IF ~cfg.ExtractDLTfromFilename /\ Len(cfg.ConsensusDLT) = 0
    THEN Some(FormatDLTS(now))
    ELSE LET given == IF Len(cfg.ConsensusDLT) > 0 THEN <<cfg.ConsensusDLT>> ELSE <<>>
             ts_matches == IF cfg.ExtractDLTfromFilename
                           THEN FindStamps(filename, 1)
                           ELSE given
             t_res == matchTimestampToFormats(ts_matches,
                                              getTimeFormats(cfg.ConsensusDLT_fmt))
         IN  IF IsNil(t_res) THEN Some(FormatDLTS(now))
             ELSE Some(FormatDLTS(Val(t_res)))

getConsensusDLTimestamp(cfg, filename, now) ==
    IF ~cfg.ExtractDLTfromFilename /\ Len(cfg.ConsensusDLT) = 0
    THEN Some(FormatDLTS(now))
    ELSE LET given == IF Len(cfg.ConsensusDLT) > 0 THEN <<cfg.ConsensusDLT>> ELSE <<>>
             ts_matches == IF cfg.ExtractDLTfromFilename
                           THEN FindStamps(filename, 1)
                           ELSE given
             t_res == matchTimestampToFormats(ts_matches,
                                              getTimeFormats(cfg.ConsensusDLT_fmt))
         IN  IF IsNil(t_res) THEN Nil ELSE Some(FormatDLTS(Val(t_res)))

\* ------------------------------------------------------------------------
\* The inputs of a run: the configuration, the files, the documents
\* ------------------------------------------------------------------------

\* The consensus documents read in all, over the runs of the program.
MaxSnapshots == 3

\* -reinit-caches-every when the flag is not given
ReInitDefault == 100

\* The days of the file names and of the system clock.
Days == {1, 2, 3}

Day(d) == Time(2023, 1, d, 0, 0, 0)

ClockTimes == {Day(d) : d \in Days}

\* The file c_2023010d0000 of day d.
DayFile(d) ==
    <<"c", "_", "2", "0", "2", "3", "0", "1", "0", DigitChars[d + 1], "0", "0", "0", "0">>

FileNames == {DayFile(d) : d \in Days}

\* The sequences of n different file names in the order of the names, the
\* order in which filepath.Glob returns the files of a directory.
RECURSIVE SortedSeqs(_, _)
SortedSeqs(S, n) ==
    IF n = 0 THEN {<<>>}
    ELSE {Append(q, x) : q \in SortedSeqs(S, n - 1), x \in S} \ 
         {q \in {Append(q, x) : q \in SortedSeqs(S, n - 1), x \in S} :
             \E i \in 1..(Len(q) - 1) : ~StrLess(q[i], q[i + 1])}

RelayA == TypicalRelay

\* The relay of RelayA seen again: the same comparable fields (the contact in
\* another case and padded), other addresses.
RelayA2 ==
    [TypicalRelay EXCEPT
        !.Contact = <<" ", "B", "O", "B">>, !.Or_addresses = <<"o2">>,
        !.Exit_addresses = <<"e1">>, !.Dir_address = "d1", !.Last_seen = "s2"]

\* The relay of RelayA under another nickname.
RelayA3 == [TypicalRelay EXCEPT !.Nickname = "n2"]

RelayB == [TypicalRelay EXCEPT !.Fingerprint = "B", !.Flags = <<"Running", "Exit">>]

\* The documents the runs read.
Documents ==
    {<<>>, <<RelayA>>, <<RelayA2>>, <<RelayA3>>, <<EmptyRelay>>, <<RelayA, RelayB>>}

\* The configuration parseCmdlnArguments leaves: the database is configured,
\* no filter is given, and the download time is that of the system clock for
\* a download and is taken from the file names for an import.
Config(f, k) ==
    [DBEnabled |-> TRUE, Filename |-> f, ConsensusDLT |-> <<>>,
     ConsensusDLT_fmt |-> "", ExtractDLTfromFilename |-> (f # ""),
     ReInitCaches |-> k, matchFlags |-> <<>>]

\* The runs that read at most n documents, each with its configuration and
\* the files its pattern stands for: a download, or the import of one to n
\* files; -reinit-caches-every is given for an import of several files only.
Runs(n) ==
    {[cfg |-> Config("", ReInitDefault), glob |-> <<>>]}
        \cup UNION {{[cfg |-> Config("c_*", k), glob |-> g] :
                        k \in IF Len(g) > 1 THEN {2, ReInitDefault}
                              ELSE {ReInitDefault}} :
                    g \in UNION {SortedSeqs(FileNames, m) : m \in 1..n}}

\* ------------------------------------------------------------------------
\* main
\* ------------------------------------------------------------------------

MatchIdle == m_relay = EmptyRelay /\ m_lrdfp = NoEntry /\ m_res = Nil

DeltaIdle == d_old = <<>> /\ d_new = <<>> /\ d_res = Nil

EmptyTables == [c \in Classes |-> <<>>]

EmptyHeld == [c \in Classes |-> {}]

NoIds == [fpid |-> 0]

\* The process as init() leaves it: nothing read, no connection, empty caches.
ProcessStart ==
    /\ pc = "main"
    /\ filenames = <<>>
    /\ num = 0
    /\ g_consensusDLTS = <<>>
    /\ tor_response = <<>>
    /\ previous_tor_response = <<>>
    /\ idx = 0
    /\ relay = Nil
    /\ ids = NoIds
    /\ work = <<>>
    /\ widx = 0
    /\ g_db = "nil"
    /\ lrd = <<>>
    /\ memo = EmptyHeld
    /\ oplog = <<>>

RunIdle ==
    /\ ProcessStart
    /\ g_config = [DBEnabled |-> FALSE]
    /\ glob = <<>>
    /\ clock = Day(1)
    /\ torRelays = <<>>
    /\ ipRows = <<>>
    /\ dict = EmptyTables
    /\ torQueries = <<>>
    /\ events = <<>>
    /\ snaps = <<>>

Init ==
    /\ ProcessStart
    /\ \E run \in Runs(MaxSnapshots) : g_config = run.cfg /\ glob = run.glob
    /\ clock = Day(1)
    /\ torRelays = <<>>
    /\ ipRows = <<>>
    /\ dict = EmptyTables
    /\ torQueries = <<>>
    /\ events = <<>>
    /\ snaps = <<>>
    /\ MatchIdle
    /\ DeltaIdle

Log(tag) == Append(oplog, <<tag, num, g_consensusDLTS>>)

LogAt(tag, n, dlts) == Append(oplog, <<tag, n, dlts>>)

\* A remainder that is zero for every file.
mutGoModAlwaysZero(a, b) == 0

\* a % b of Go for a >= 0 and b # 0
GoMod(a, b) == IF b > 0 THEN a % b ELSE a % (0 - b)

\* initialize: the connection is opened when the database is configured.
DbAfterInitialize == IF g_config.DBEnabled THEN "open" ELSE "nil"

\* initializeCaches leaving the value caches empty.
mutInitializeCachesEmpties(dlts, n) ==
    /\ memo' = EmptyHeld
    /\ lrd' = initializeLatestRelayDataCache(dict, torRelays, dlts)
    /\ oplog' = LogAt("initializeCaches", n, dlts)

\* initializeCaches (nothing when the database is not configured)
InitializeCaches(dlts, n) ==
    IF g_config.DBEnabled
    THEN /\ memo' = initCaches(dict)
         /\ lrd' = initializeLatestRelayDataCache(dict, torRelays, dlts)
         /\ oplog' = LogAt("initializeCaches", n, dlts)
    ELSE /\ UNCHANGED <<memo, lrd>>
         /\ oplog' = LogAt("noCaches", n, dlts)

\* The cache of the latest relay data with RecordLastSeen alone read again
\* from the rows the entries were loaded from.
mutReloadRefreshesRLSOnly(dlts, n) ==
    /\ lrd' = [fp \in DOMAIN lrd |->
                  [lrd[fp] EXCEPT !.RecordLastSeen = torRelays[lrd[fp].id].RecordLastSeen]]
    /\ oplog' = LogAt("reloadLRD", n, dlts)
    /\ UNCHANGED memo

\* main, lines 410 to 412: the cache of the latest relay data is loaded again
\* as of the timestamp of the file; the value caches are left as they are.
ReloadLatestRelayData(dlts, n) ==
    /\ lrd' = initializeLatestRelayDataCache(dict, torRelays, dlts)
    /\ oplog' = LogAt("reloadLRD", n, dlts)
    /\ UNCHANGED memo

\* main, lines 364 to 372: initialize, and for a download the time of the
\* system clock and the caches.
StartDownload ==
    /\ pc = "main"
    /\ g_config.Filename = ""
    /\ \E now \in ClockTimes :
          /\ StrLeq(FormatDLTS(clock), FormatDLTS(now))
          /\ LET d == getConsensusDLTimestamp(g_config, <<>>, now)
             IN  /\ clock' = now
                 /\ g_db' = DbAfterInitialize
                 /\ IF IsNil(d)
                    THEN /\ pc' = "fatal"
                         /\ UNCHANGED <<g_consensusDLTS, memo, lrd, oplog>>
                    ELSE /\ pc' = "get"
                         /\ g_consensusDLTS' = Val(d)
                         /\ InitializeCaches(Val(d), 0)
    /\ UNCHANGED <<g_config, glob, filenames, num, tor_response, previous_tor_response,
                   relayVars, dbVars, events, snaps, matchVars, deltaVars>>

\* main without the check of a bulk import against -consensus-download-time.
mutStartImportNoBulkCheck ==
    /\ pc = "main"
    /\ g_config.Filename # ""
    /\ g_db' = DbAfterInitialize
    /\ filenames' = glob
    /\ IF Len(glob) = 0
       THEN pc' = "fatal" /\ UNCHANGED g_config
       ELSE /\ pc' = "first"
            /\ g_config' = IF Len(glob) > 1
                            THEN [g_config EXCEPT !.ExtractDLTfromFilename = TRUE]
                            ELSE g_config
    /\ UNCHANGED <<glob, clock, num, g_consensusDLTS, tor_response,
                   previous_tor_response, relayVars, lrd, memo, dbVars, histVars,
                   matchVars, deltaVars>>

\* main, lines 364 to 395: initialize, the files of the pattern, and the
\* checks of a bulk import.
StartImport ==
    /\ pc = "main"
    /\ g_config.Filename # ""
    /\ g_db' = DbAfterInitialize
    /\ filenames' = glob
    /\ IF Len(glob) = 0
       THEN pc' = "fatal" /\ UNCHANGED g_config
       ELSE IF Len(glob) > 1 /\ Len(g_config.ConsensusDLT) > 0
       THEN pc' = "fatal" /\ UNCHANGED g_config
       ELSE /\ pc' = "first"
            /\ g_config' = IF Len(glob) > 1
                            THEN [g_config EXCEPT !.ExtractDLTfromFilename = TRUE]
                            ELSE g_config
    /\ UNCHANGED <<glob, clock, num, g_consensusDLTS, tor_response,
                   previous_tor_response, relayVars, lrd, memo, dbVars, histVars,
                   matchVars, deltaVars>>

\* main, lines 397 and 398: the timestamp of the first file, and the caches.
FirstFile ==
    /\ pc = "first"
    /\ \E now \in ClockTimes :
          /\ StrLeq(FormatDLTS(clock), FormatDLTS(now))
          /\ g_config.ExtractDLTfromFilename \/ Len(g_config.ConsensusDLT) > 0
                => now = clock
          /\ LET d == getConsensusDLTimestamp(g_config, filenames[1], now)
             IN  /\ clock' = now
                 /\ IF IsNil(d)
                    THEN /\ pc' = "fatal"
                         /\ UNCHANGED <<g_consensusDLTS, memo, lrd, oplog>>
                    ELSE /\ pc' = "loop"
                         /\ g_consensusDLTS' = Val(d)
                         /\ InitializeCaches(Val(d), 0)
    /\ num' = 0
    /\ UNCHANGED <<g_config, glob, filenames, tor_response, previous_tor_response,
                   relayVars, g_db, dbVars, events, snaps, matchVars, deltaVars>>

\* The first file, whatever the index.
mutFileOfFirst(n) == filenames[1]

\* main, line 404: filenames[num], the file whose name gives the timestamp.
FileOf(n) == filenames[n + 1]

\* main, lines 404 to 413: the timestamp of file num, then the caches: all of
\* them every ReInitCaches files, the latest relay data alone otherwise.
LoopHead ==
    /\ pc = "loop"
    /\ \E now \in ClockTimes :
          /\ StrLeq(FormatDLTS(clock), FormatDLTS(now))
          /\ g_config.ExtractDLTfromFilename \/ Len(g_config.ConsensusDLT) > 0
                => now = clock
          /\ LET d == getConsensusDLTimestamp(g_config, FileOf(num), now)
             IN  /\ clock' = now
                 /\ IF IsNil(d)
                    THEN /\ pc' = "fatal"
                         /\ UNCHANGED <<g_consensusDLTS, memo, lrd, oplog>>
                    ELSE /\ g_consensusDLTS' = Val(d)
                         /\ IF g_config.ReInitCaches = 0
                            THEN \* integer divide by zero
                                 /\ pc' = "panic"
                                 /\ UNCHANGED <<memo, lrd, oplog>>
                            ELSE IF GoMod(num, g_config.ReInitCaches) = 0
                            THEN /\ pc' = "get"
                                 /\ InitializeCaches(Val(d), num)
                            ELSE IF g_db = "nil"
                            THEN \* g_db.lrd of the nil g_db
                                 /\ pc' = "panic"
                                 /\ UNCHANGED <<memo, lrd, oplog>>
                            ELSE /\ pc' = "get"
                                 /\ ReloadLatestRelayData(Val(d), num)
    /\ UNCHANGED <<g_config, glob, filenames, num, tor_response,
                   previous_tor_response, relayVars, g_db, dbVars, events, snaps,
                   matchVars, deltaVars>>

\* The loop of main keeping, as the previous document, the relays left by
\* extractNewAndUpdatedRelays instead of the document read.
mutGetConsensusKeepsDelta ==
    /\ pc = "get"
    /\ \E doc \in Documents :
          LET kept == IF g_config.Filename # "" /\ num # 0
                      THEN extractNewAndUpdatedRelays(previous_tor_response, doc)
                      ELSE doc
          IN  /\ tor_response' = kept
              /\ previous_tor_response' = IF g_config.Filename # "" THEN kept
                                          ELSE previous_tor_response
              /\ snaps' = Append(snaps, [dlts |-> g_consensusDLTS, relays |-> doc,
                                         kept |-> kept, num |-> num,
                                         bulk |-> Len(filenames) > 1])
    /\ pc' = "log"
    /\ oplog' = Log("getConsensus")
    /\ UNCHANGED <<envVars, filenames, num, g_consensusDLTS, relayVars, cacheVars,
                   dbVars, events, matchVars, deltaVars>>

\* main, lines 374 and 416 to 423: the document is read and decoded; from the
\* second file on, the relays kept are those extractNewAndUpdatedRelays
\* returns for the previous document and this one.
GetConsensus ==
    /\ pc = "get"
    /\ \E doc \in Documents :
          LET kept == IF g_config.Filename # "" /\ num # 0
                      THEN extractNewAndUpdatedRelays(previous_tor_response, doc)
                      ELSE doc
          IN  /\ tor_response' = kept
              /\ previous_tor_response' = IF g_config.Filename # "" THEN doc
                                          ELSE previous_tor_response
              /\ snaps' = Append(snaps, [dlts |-> g_consensusDLTS, relays |-> doc,
                                         kept |-> kept, num |-> num,
                                         bulk |-> Len(filenames) > 1])
    /\ pc' = "log"
    /\ oplog' = Log("getConsensus")
    /\ UNCHANGED <<envVars, filenames, num, g_consensusDLTS, relayVars, cacheVars,
                   dbVars, events, matchVars, deltaVars>>

\* logDataImport
LogDataImport ==
    /\ pc = "log"
    /\ torQueries' = IF g_db # "nil" THEN Append(torQueries, g_consensusDLTS)
                     ELSE torQueries
    /\ pc' = "relay"
    /\ idx' = 1
    /\ UNCHANGED <<envVars, filenames, num, g_consensusDLTS, tor_response,
                   previous_tor_response, relay, ids, work, widx, cacheVars,
                   torRelays, ipRows, dict, histVars, matchVars, deltaVars>>

\* ------------------------------------------------------------------------
\* processTorResponse
\* ------------------------------------------------------------------------

\* What processTorResponse did with a relay, for the history of the run.
Event(r, class) ==
    [snap |-> Len(snaps), relay |-> r, dlts |-> g_consensusDLTS, class |-> class,
     entry |-> LrdGet(lrd, r.Fingerprint), rows |-> Len(torRelays)]

\* The next relay of the loop, or the relay after the one at hand.
NextRelay ==
    /\ pc' = "relay"
    /\ idx' = idx + 1
    /\ relay' = Nil
    /\ work' = <<>>
    /\ widx' = 0

\* processTorResponse, lines 471 to 511: one relay of the loop, up to the
\* branch taken for it.
ReconcileRelay ==
    /\ pc = "relay"
    /\ idx <= Len(tor_response)
    /\ LET r0 == tor_response[idx]
           r == [r0 EXCEPT !.Contact = TrimSpace(@)]
           class == Classify(r, lrd, g_consensusDLTS)
       IN  IF ~allStringsInSetMatch(g_config.matchFlags, r0.Flags)
           THEN /\ NextRelay
                /\ events' = Append(events, Event(r0, "FILTERED"))
           ELSE IF g_db = "nil"
           THEN /\ NextRelay
                /\ events' = Append(events, Event(r0, "PRINTED"))
           ELSE /\ events' = Append(events, Event(r, class))
                /\ IF class \in {"UNCHANGED_FRESH", "UNCHANGED_STALE"}
                   THEN NextRelay
                   ELSE IF class = "FRESHNESS"
                   THEN /\ pc' = "upd"
                        /\ relay' = Some(r)
                        /\ work' = AddressCalls(r)
                        /\ widx' = 1
                        /\ idx' = idx
                   ELSE /\ pc' = "ids"
                        /\ relay' = Some(r)
                        /\ UNCHANGED <<work, widx, idx>>
    /\ UNCHANGED <<envVars, mainVars, ids, cacheVars, dbVars, snaps, oplog,
                   matchVars, deltaVars>>

\* updateRelayAddressesIfNeeded setting the last seen time of a recorded
\* address to the timestamp of the document, later or not.
mutUpdateAddressSetsLastSeen ==
    /\ pc = "upd"
    /\ widx <= Len(work)
    /\ LET fpid == LrdGet(lrd, Val(relay).Fingerprint).ID_NodeFingerprints
           role == work[widx][1]
           addr == work[widx][2]
       IN  ipRows' = IF HasAddress(ipRows, role, fpid, addr)
                     THEN [ipRows EXCEPT ![AddressIndex(ipRows, role, fpid, addr)]
                                             .RecordLastSeen = g_consensusDLTS]
                     ELSE Append(ipRows, [role |-> role, fpid |-> fpid, addr |-> addr,
                                          RecordTimeInserted |-> g_consensusDLTS,
                                          RecordLastSeen |-> g_consensusDLTS])
    /\ widx' = widx + 1
    /\ oplog' = Log("updateAddress")
    /\ UNCHANGED <<pc, envVars, mainVars, idx, relay, ids, work, cacheVars, torRelays,
                   dict, torQueries, events, snaps, matchVars, deltaVars>>

\* updateRelayAddressesIfNeeded: one address of its loops.
UpdateAddress ==
    /\ pc = "upd"
    /\ widx <= Len(work)
    /\ ipRows' = updateIfNeededRelayAddressRLS(
                     ipRows, work[widx][1],
                     LrdGet(lrd, Val(relay).Fingerprint).ID_NodeFingerprints,
                     g_consensusDLTS, work[widx][2])
    /\ widx' = widx + 1
    /\ oplog' = Log("updateAddress")
    /\ UNCHANGED <<pc, envVars, mainVars, idx, relay, ids, work, cacheVars, torRelays,
                   dict, torQueries, events, snaps, matchVars, deltaVars>>

\* UpdateTorRelayRLS taken before updateRelayAddressesIfNeeded has gone
\* through the addresses.
mutUpdateTorRelayRLSFirst ==
    /\ pc = "upd"
    /\ torRelays' = updateTorRelayRLS(torRelays,
                                      LrdGet(lrd, Val(relay).Fingerprint).id,
                                      g_consensusDLTS)
    /\ oplog' = Log("updateTorRelayRLS")
    /\ NextRelay
    /\ UNCHANGED <<envVars, mainVars, ids, cacheVars, ipRows, dict, torQueries,
                   events, snaps, matchVars, deltaVars>>

\* processTorResponse setting RecordLastSeen of every row of the fingerprint,
\* not of the cached row alone.
mutUpdateTorRelayRLSEveryRow ==
    /\ pc = "upd"
    /\ widx > Len(work)
    /\ torRelays' =
          [i \in 1..Len(torRelays) |->
              IF TextOf(dict, "fingerprint", torRelays[i].fpid) = Val(relay).Fingerprint
              THEN [torRelays[i] EXCEPT !.RecordLastSeen = g_consensusDLTS]
              ELSE torRelays[i]]
    /\ oplog' = Log("updateTorRelayRLS")
    /\ NextRelay
    /\ UNCHANGED <<envVars, mainVars, ids, cacheVars, ipRows, dict, torQueries,
                   events, snaps, matchVars, deltaVars>>

\* processTorResponse, line 506: RecordLastSeen of the cached row is set to
\* the timestamp of the document, after updateRelayAddressesIfNeeded.
UpdateTorRelayRLS ==
    /\ pc = "upd"
    /\ widx > Len(work)
    /\ torRelays' = updateTorRelayRLS(torRelays,
                                      LrdGet(lrd, Val(relay).Fingerprint).id,
                                      g_consensusDLTS)
    /\ oplog' = Log("updateTorRelayRLS")
    /\ NextRelay
    /\ UNCHANGED <<envVars, mainVars, ids, cacheVars, ipRows, dict, torQueries,
                   events, snaps, matchVars, deltaVars>>

\* addNewTorRelayToDB, lines 521 to 536: the ids of the values of the relay.
ResolveIds ==
    /\ pc = "ids"
    /\ LET calls == IdCalls(Val(relay))
           table == TableAfterCalls(dict, memo, calls)
       IN  /\ dict' = table
           /\ memo' = HeldAfterCalls(memo, calls)
           /\ ids' = [fpid |-> Value2Id(table, "fingerprint", Val(relay).Fingerprint)]
    /\ pc' = "ins"
    /\ UNCHANGED <<envVars, mainVars, idx, relay, work, widx, g_db, lrd, torRelays,
                   ipRows, torQueries, histVars, matchVars, deltaVars>>

\* InsertRow writing the new state over the cached row of the fingerprint.
mutInsertRowOverwrites ==
    /\ pc = "ins"
    /\ LET e == LrdGet(lrd, Val(relay).Fingerprint)
           row == NewRow(dict, Val(relay), g_consensusDLTS)
       IN  torRelays' = IF e.id > 0 THEN [torRelays EXCEPT ![e.id] = row]
                        ELSE Append(torRelays, row)
    /\ oplog' = Log("insertRow")
    /\ LET calls == AddressCalls(cleanupRelayStruct(Val(relay)))
       IN  IF Len(calls) = 0
           THEN /\ NextRelay
                /\ ids' = NoIds
           ELSE /\ pc' = "add"
                /\ work' = calls
                /\ widx' = 1
                /\ UNCHANGED <<idx, relay, ids>>
    /\ UNCHANGED <<envVars, mainVars, cacheVars, ipRows, dict, torQueries, events,
                   snaps, matchVars, deltaVars>>

\* addNewTorRelayToDB, lines 538 to 565: the row is inserted; the addresses
\* of the relay are those addNewRelayAddresses goes through.
InsertRow ==
    /\ pc = "ins"
    /\ torRelays' = Append(torRelays, NewRow(dict, Val(relay), g_consensusDLTS))
    /\ oplog' = Log("insertRow")
    /\ LET calls == AddressCalls(cleanupRelayStruct(Val(relay)))
       IN  IF Len(calls) = 0
           THEN /\ NextRelay
                /\ ids' = NoIds
           ELSE /\ pc' = "add"
                /\ work' = calls
                /\ widx' = 1
                /\ UNCHANGED <<idx, relay, ids>>
    /\ UNCHANGED <<envVars, mainVars, cacheVars, ipRows, dict, torQueries, events,
                   snaps, matchVars, deltaVars>>

\* addNewRelayAddresses with an insert for every address, recorded or not.
mutAddAddressAlwaysInserts ==
    /\ pc = "add"
    /\ ipRows' = Append(ipRows, [role |-> work[widx][1], fpid |-> ids.fpid,
                                 addr |-> work[widx][2],
                                 RecordTimeInserted |-> g_consensusDLTS,
                                 RecordLastSeen |-> g_consensusDLTS])
    /\ oplog' = Log("addAddress")
    /\ IF widx = Len(work)
       THEN /\ NextRelay
            /\ ids' = NoIds
       ELSE /\ widx' = widx + 1
            /\ UNCHANGED <<pc, idx, relay, ids, work>>
    /\ UNCHANGED <<envVars, filenames, num, g_consensusDLTS, tor_response,
                   previous_tor_response, cacheVars, torRelays, dict, torQueries,
                   events, snaps, matchVars, deltaVars>>

\* addNewRelayAddresses: one address of its loops.
AddAddress ==
    /\ pc = "add"
    /\ ipRows' = addToIP(ipRows, work[widx][1], ids.fpid, g_consensusDLTS,
                         g_consensusDLTS, work[widx][2])
    /\ oplog' = Log("addAddress")
    /\ IF widx = Len(work)
       THEN /\ NextRelay
            /\ ids' = NoIds
       ELSE /\ widx' = widx + 1
            /\ UNCHANGED <<pc, idx, relay, ids, work>>
    /\ UNCHANGED <<envVars, filenames, num, g_consensusDLTS, tor_response,
                   previous_tor_response, cacheVars, torRelays, dict, torQueries,
                   events, snaps, matchVars, deltaVars>>

\* The end of processTorResponse: the next file of an import, or the end of
\* main.
EndOfResponse ==
    /\ pc = "relay"
    /\ idx > Len(tor_response)
    /\ idx' = 0
    /\ IF g_config.Filename = ""
       THEN pc' = "cleanup" /\ UNCHANGED num
       ELSE /\ num' = num + 1
            /\ pc' = IF num + 1 < Len(filenames) THEN "loop" ELSE "cleanup"
    /\ UNCHANGED <<envVars, filenames, g_consensusDLTS, tor_response,
                   previous_tor_response, relay, ids, work, widx, cacheVars, dbVars,
                   histVars, matchVars, deltaVars>>

\* cleanup, deferred by main: the connection is closed.
Cleanup ==
    /\ pc \in {"cleanup", "panic"}
    /\ g_db' = "nil"
    /\ pc' = IF pc = "panic" THEN "crashed" ELSE "done"
    /\ UNCHANGED <<envVars, filenames, num, g_consensusDLTS, tor_response,
                   previous_tor_response, relayVars, lrd, memo, dbVars, histVars,
                   matchVars, deltaVars>>

\* The program is run again on the same database, with the configuration and
\* the files of the new run.
Restart ==
    /\ pc \in {"done", "fatal", "crashed"}
    /\ Len(snaps) < MaxSnapshots
    /\ \E run \in Runs(MaxSnapshots - Len(snaps)) :
          g_config' = run.cfg /\ glob' = run.glob
    /\ pc' = "main"
    /\ filenames' = <<>>
    /\ num' = 0
    /\ g_consensusDLTS' = <<>>
    /\ tor_response' = <<>>
    /\ previous_tor_response' = <<>>
    /\ idx' = 0
    /\ relay' = Nil
    /\ ids' = NoIds
    /\ work' = <<>>
    /\ widx' = 0
    /\ g_db' = "nil"
    /\ lrd' = <<>>
    /\ memo' = EmptyHeld
    /\ oplog' = <<>>
    /\ UNCHANGED <<clock, dbVars, events, snaps, matchVars, deltaVars>>

Next ==
    \/ StartDownload
    \/ StartImport
    \/ FirstFile
    \/ LoopHead
    \/ GetConsensus
    \/ LogDataImport
    \/ ReconcileRelay
    \/ UpdateAddress
    \/ UpdateTorRelayRLS
    \/ ResolveIds
    \/ InsertRow
    \/ AddAddress
    \/ EndOfResponse
    \/ Cleanup
    \/ Restart

Spec == Init /\ [][Next]_vars

\* ------------------------------------------------------------------------
\* The bulk imports under every kind of -reinit-caches-every
\* ------------------------------------------------------------------------

\* The values given on the command line: parseCmdlnArguments takes any int.
Intervals == {0 - 1, 0, 1, 2, ReInitDefault}

\* The imports of one to n files, each under every interval.
SchedRuns(n) ==
    UNION {{[cfg |-> Config("c_*", k), glob |-> g] : k \in Intervals} :
            g \in UNION {SortedSeqs(FileNames, m) : m \in 1..n}}

InitSched ==
    /\ ProcessStart
    /\ \E run \in SchedRuns(MaxSnapshots) : g_config = run.cfg /\ glob = run.glob
    /\ clock = Day(1)
    /\ torRelays = <<>>
    /\ ipRows = <<>>
    /\ dict = EmptyTables
    /\ torQueries = <<>>
    /\ events = <<>>
    /\ snaps = <<>>
    /\ MatchIdle
    /\ DeltaIdle

\* One run of main, from initialize to cleanup.
NextSched ==
    \/ StartImport
    \/ FirstFile
    \/ LoopHead
    \/ GetConsensus
    \/ LogDataImport
    \/ ReconcileRelay
    \/ UpdateAddress
    \/ UpdateTorRelayRLS
    \/ ResolveIds
    \/ InsertRow
    \/ AddAddress
    \/ EndOfResponse
    \/ Cleanup

SpecSched == InitSched /\ [][NextSched]_vars

\* ------------------------------------------------------------------------
\* The imports in which the insert may fail and the process may be ended
\* ------------------------------------------------------------------------

\* addNewTorRelayToDB where stmtAddTorRelays.Exec skips the relay and goes on.
mutInsertRowFailsSkips ==
    /\ pc = "ins"
    /\ oplog' = Log("execFailed")
    /\ NextRelay
    /\ ids' = NoIds
    /\ UNCHANGED <<envVars, mainVars, cacheVars, dbVars, events, snaps, matchVars,
                   deltaVars>>

\* addNewTorRelayToDB, lines 554 to 558: stmtAddTorRelays.Exec returns an
\* error and the function panics; no row is inserted.
InsertRowFails ==
    /\ pc = "ins"
    /\ oplog' = Log("execFailed")
    /\ pc' = "panic"
    /\ UNCHANGED <<envVars, mainVars, relayVars, cacheVars, dbVars, events, snaps,
                   matchVars, deltaVars>>

\* The process is ended from outside while main runs; main installs no
\* handler, and nothing of it runs afterwards.
Abort ==
    /\ pc \notin {"done", "fatal", "crashed", "panic"}
    /\ oplog' = Log("aborted")
    /\ pc' = "crashed"
    /\ UNCHANGED <<envVars, mainVars, relayVars, cacheVars, dbVars, events, snaps,
                   matchVars, deltaVars>>

NextFail ==
    \/ NextSched
    \/ InsertRowFails
    \/ Abort

SpecFail == InitSched /\ [][NextFail]_vars

\* ------------------------------------------------------------------------
\* The imports under every way of giving the download time
\* ------------------------------------------------------------------------

\* Files whose names give no timestamp: one with digits that no format
\* matches, one without digits.
BadFiles == {<<"c", "_", "1", "2", "3">>, <<"c", "_", "x">>}

\* -consensus-download-time: not given, a time of day 2, a text no format
\* matches.
Overrides == {<<>>, FormatDLTS(Day(2)), <<"n", "o", "w">>}

\* The configurations parseCmdlnArguments lets through for an import: the
\* time is given or taken from the file name, not both (line 962), or neither.
StampConfigs ==
    {c \in {[Config("c_*", ReInitDefault) EXCEPT !.ConsensusDLT = o,
                                                 !.ExtractDLTfromFilename = x] :
                o \in Overrides, x \in BOOLEAN} :
        ~(c.ExtractDLTfromFilename /\ Len(c.ConsensusDLT) > 0)}

\* The imports of one to n files, good names and bad.
StampRuns(n) ==
    {[cfg |-> c, glob |-> g] :
        c \in StampConfigs,
        g \in UNION {SortedSeqs(FileNames \cup BadFiles, m) : m \in 1..n}}

InitStamp ==
    /\ ProcessStart
    /\ \E run \in StampRuns(MaxSnapshots) : g_config = run.cfg /\ glob = run.glob
    /\ clock = Day(1)
    /\ torRelays = <<>>
    /\ ipRows = <<>>
    /\ dict = EmptyTables
    /\ torQueries = <<>>
    /\ events = <<>>
    /\ snaps = <<>>
    /\ MatchIdle
    /\ DeltaIdle

SpecStamp == InitStamp /\ [][NextSched]_vars

\* ------------------------------------------------------------------------
\* The imports with a filter, with and without the database
\* ------------------------------------------------------------------------

\* The values of -filter, each as the sequence of its comma separated fields:
\* the empty string, one flag, two flags, a flag and a trailing comma.
NodeFilters ==
    {<<"">>, <<"Running">>, <<"Exit">>, <<"Running", "Exit">>, <<"Exit", "">>}

\* parseNodeFilters: no flag for the empty string, else its fields.
parseNodeFilters(nodeFilter) == IF nodeFilter = <<"">> THEN <<>> ELSE nodeFilter

\* The configurations parseCmdlnArguments leaves for an import: the database
\* is configured or not, a filter is given or not, and the caches are built
\* again for every file or every ReInitDefault files.
OptConfigs ==
    {[Config("c_*", k) EXCEPT !.DBEnabled = e,
                              !.matchFlags = parseNodeFilters(f)] :
        k \in {1, ReInitDefault}, e \in BOOLEAN, f \in NodeFilters}

\* The imports of one to n files under these configurations.
OptRuns(n) ==
    {[cfg |-> c, glob |-> g] :
        c \in OptConfigs, g \in UNION {SortedSeqs(FileNames, m) : m \in 1..n}}

InitOpts ==
    /\ ProcessStart
    /\ \E run \in OptRuns(MaxSnapshots) : g_config = run.cfg /\ glob = run.glob
    /\ clock = Day(1)
    /\ torRelays = <<>>
    /\ ipRows = <<>>
    /\ dict = EmptyTables
    /\ torQueries = <<>>
    /\ events = <<>>
    /\ snaps = <<>>
    /\ MatchIdle
    /\ DeltaIdle

SpecOpts == InitOpts /\ [][NextSched]_vars

\* ------------------------------------------------------------------------
\* Properties of the runs (Spec)
\* ------------------------------------------------------------------------

\* The rows of TorRelays of a fingerprint.
RowsOf(fp) ==
    {i \in 1..Len(torRelays) : TextOf(dict, "fingerprint", torRelays[i].fpid) = fp}

\* The relay of events[i] has been dealt with.
Reconciled(i) == i < Len(events) \/ pc \notin {"upd", "ids", "ins", "add"}

\* The latest of a set of timestamps.
MaxStamp(S) == CHOOSE x \in S : \A y \in S : StrLeq(y, x)

\* The documents were read in the order of their timestamps.
Chronological ==
    \A k \in 1..(Len(snaps) - 1) : StrLeq(snaps[k].dlts, snaps[k + 1].dlts)

\* The same relay reconciled twice in a row with one timestamp, the first time
\* with nothing stored and no cache entry, the second time with a cache entry.
TwiceTheSame(i) ==
    /\ i + 1 <= Len(events)
    /\ events[i].rows = 0
    /\ events[i].entry = NoEntry
    /\ events[i + 1].relay = events[i].relay
    /\ events[i + 1].dlts = events[i].dlts
    /\ events[i + 1].entry # NoEntry

\* C1: a relay reconciled with nothing stored and an empty cache, and then
\* again with the same timestamp against the cache that holds it, is first
\* NEW and then UNCHANGED_FRESH, and one row of its fingerprint is stored
\* afterwards.
C1_Idempotence ==
    \A i \in 1..Len(events) :
        TwiceTheSame(i) =>
            /\ events[i].class = "NEW"
            /\ events[i + 1].class = "UNCHANGED_FRESH"
            /\ Reconciled(i + 1) /\ Len(events) = i + 1
                  => Cardinality(RowsOf(events[i].relay.Fingerprint)) = 1

C1_Witness ==
    /\ TwiceTheSame(1)
    /\ Len(events) = 2
    /\ pc = "done"
    /\ events[2].class = "UNCHANGED_FRESH"
    /\ Cardinality(RowsOf(events[1].relay.Fingerprint)) = 1

\* C2: no step removes a row of TorRelays or sets the RecordLastSeen of a row
\* to an earlier time, whatever the order of the timestamps of the documents.
C2_RLSNeverDecreases ==
    [][/\ Len(torRelays') >= Len(torRelays)
       /\ \A i \in 1..Len(torRelays) :
             StrLeq(torRelays[i].RecordLastSeen, torRelays'[i].RecordLastSeen)]_vars

\* A document older than the RecordLastSeen of the row it matches was read.
C2_Witness ==
    \E i \in 1..Len(events) :
        /\ events[i].class = "UNCHANGED_STALE"
        /\ StrLess(events[i].dlts, torRelays[events[i].entry.id].RecordLastSeen)

\* The documents that hold a relay of the fingerprint with the comparable
\* fields of the cache entry e.
ObservedAs(fp, e) ==
    {k \in 1..Len(snaps) :
        \E j \in 1..Len(snaps[k].relays) :
            /\ snaps[k].relays[j].Fingerprint = fp
            /\ recordsMatch([snaps[k].relays[j] EXCEPT !.Contact = TrimSpace(@)], e)}

\* C3: at the end of a run over documents in the order of their timestamps,
\* the RecordLastSeen of the latest row of every fingerprint is the timestamp
\* of the last document that holds the relay with the comparable fields of
\* that row.
C3_RLSIsLastObservation ==
    pc = "done" /\ Chronological =>
        \A fp \in {"A", "B"} :
            RowsOf(fp) # {} =>
                LET id == CHOOSE i \in RowsOf(fp) : \A j \in RowsOf(fp) : j <= i
                    obs == ObservedAs(fp, EntryOfRow(dict, torRelays, id))
                IN  /\ obs # {}
                    /\ torRelays[id].RecordLastSeen =
                          MaxStamp({snaps[k].dlts : k \in obs})

\* C6: a relay whose fingerprint has no cache entry is NEW, whatever its
\* fields (all the comparable fields empty and no policies among them), and a
\* row of its fingerprint is added to TorRelays.
C6_AbsentIsNew ==
    \A i \in 1..Len(events) :
        /\ events[i].entry = NoEntry /\ events[i].class \notin {"FILTERED", "PRINTED"}
              => events[i].class = "NEW"
        /\ events[i].class = "NEW" /\ Reconciled(i)
              => /\ Len(torRelays) > events[i].rows
                 /\ events[i].rows + 1 \in RowsOf(events[i].relay.Fingerprint)

C6_Witness ==
    \E i \in 1..Len(events) :
        /\ events[i].relay = EmptyRelay
        /\ events[i].entry = NoEntry
        /\ events[i].class = "NEW"
        /\ Reconciled(i)
        /\ events[i].rows + 1 \in RowsOf("A")

\* The documents that hold a relay of the fingerprint with the address in the
\* role.
SeenWith(fp, role, addr) ==
    {k \in 1..Len(snaps) :
        \E j \in 1..Len(snaps[k].relays) :
            /\ snaps[k].relays[j].Fingerprint = fp
            /\ <<role, addr>> \in Range(AddressCalls(snaps[k].relays[j]))}

\* C9: at the end of a run, the last seen time of every address row is the
\* latest timestamp of the documents that hold the address for the
\* fingerprint and the role of the row.
C9_AddressLastSeenIsMax ==
    pc = "done" =>
        \A i \in 1..Len(ipRows) :
            LET a == ipRows[i]
                obs == SeenWith(TextOf(dict, "fingerprint", a.fpid), a.role, a.addr)
            IN  /\ obs # {}
                /\ a.RecordLastSeen = MaxStamp({snaps[k].dlts : k \in obs})

\* Every address of the relay has a row, last seen no earlier than dlts.
AddressesSynced(rows, r, fpid, dlts) ==
    \A c \in Range(AddressCalls(r)) :
        /\ HasAddress(rows, c[1], fpid, c[2])
        /\ StrLeq(dlts, rows[AddressIndex(rows, c[1], fpid, c[2])].RecordLastSeen)

\* C10: for a relay that matches its cache entry with a timestamp later than
\* the RecordLastSeen of the entry, updateRelayAddressesIfNeeded goes through
\* the Or, Exit and Dir addresses of the relay while TorRelays is left alone,
\* and only then RecordLastSeen of the cached row is set to the timestamp; no
\* row is added to TorRelays.
C10_FreshnessOnlyUpdate ==
    [][/\ /\ pc = "relay" /\ idx <= Len(tor_response) /\ g_db # "nil"
          /\ allStringsInSetMatch(g_config.matchFlags, tor_response[idx].Flags)
          /\ LET r == [tor_response[idx] EXCEPT !.Contact = TrimSpace(@)]
                 e == LrdGet(lrd, r.Fingerprint)
             IN  recordsMatch(r, e) /\ StrLess(e.RecordLastSeen, g_consensusDLTS)
          => pc' = "upd" /\ work' = AddressCalls(tor_response[idx])
                /\ torRelays' = torRelays
       /\ pc = "upd" /\ pc' = "upd" => torRelays' = torRelays
       /\ pc = "upd" /\ pc' # "upd"
          => LET e == LrdGet(lrd, Val(relay).Fingerprint)
             IN  /\ AddressesSynced(ipRows, Val(relay), e.ID_NodeFingerprints,
                                    g_consensusDLTS)
                 /\ ipRows' = ipRows
                 /\ Len(torRelays') = Len(torRelays)
                 /\ torRelays'[e.id].RecordLastSeen = g_consensusDLTS]_vars

\* A relay seen again with other addresses has gone through the update.
C10_Witness ==
    /\ pc = "relay"
    /\ Len(events) > 0
    /\ LET e == events[Len(events)]
       IN  /\ e.class = "FRESHNESS"
           /\ e.relay.Dir_address = "d1"
           /\ Len(torRelays) = e.rows
           /\ torRelays[e.entry.id].RecordLastSeen = e.dlts
           /\ AddressesSynced(ipRows, e.relay, e.entry.ID_NodeFingerprints, e.dlts)

\* ------------------------------------------------------------------------
\* recordsMatch and extractNewAndUpdatedRelays applied to drawn inputs
\* ------------------------------------------------------------------------

InitMatch ==
    /\ m_relay \in MatchRelays
    /\ m_lrdfp \in MatchEntries
    /\ m_res = Nil
    /\ DeltaIdle
    /\ RunIdle

CallRecordsMatch ==
    /\ IsNil(m_res)
    /\ m_res' = Some(recordsMatch(m_relay, m_lrdfp))
    /\ UNCHANGED <<m_relay, m_lrdfp, deltaVars, runVars>>

SpecMatch == InitMatch /\ [][CallRecordsMatch]_vars

InitDelta ==
    /\ d_old \in DeltaArrays
    /\ d_new \in DeltaArrays
    /\ d_res = Nil
    /\ MatchIdle
    /\ RunIdle

CallExtract ==
    /\ IsNil(d_res)
    /\ d_res' = Some(extractNewAndUpdatedRelays(d_old, d_new))
    /\ UNCHANGED <<d_old, d_new, matchVars, runVars>>

SpecDelta == InitDelta /\ [][CallExtract]_vars

\* ------------------------------------------------------------------------
\* Properties of recordsMatch (SpecMatch)
\* ------------------------------------------------------------------------

\* Two strings that differ at most in the case of their letters.
EqualFold(s, t) ==
    /\ Len(s) = Len(t)
    /\ \A i \in 1..Len(s) :
          \/ s[i] = t[i]
          \/ \E k \in 1..26 : {s[i], t[i]} = {UpperLetters[k], LowerLetters[k]}

\* The comparable fields in which a relay and a cache entry differ, the
\* contact compared without regard to case.
DiffFields(r, e) ==
    {f \in CompEntryFields :
        IF f = "ContactName" THEN ~EqualFold(r.Contact, e.ContactName)
        ELSE EntryFor(r)[f] # e[f]}

\* C4: a relay and a cache entry that differ in exactly one comparable field
\* (nickname, country, city, platform, version, contact without regard to
\* case, Last_changed_address_or_port, First_seen, one of the three serialised
\* policies) do not match.
C4_ChangeDetectionComplete ==
    (~IsNil(m_res) /\ Cardinality(DiffFields(m_relay, m_lrdfp)) = 1)
        => Val(m_res) = FALSE

C4_Witness ==
    /\ ~IsNil(m_res)
    /\ DiffFields(m_relay, m_lrdfp) = {"CityName"}
    /\ Val(m_res) = FALSE

\* C5: a relay whose contact differs from the cached contact only in the case
\* of its letters, every other comparable field being equal, matches.
C5_ContactCaseInsensitive ==
    (/\ ~IsNil(m_res)
     /\ m_relay.Contact # m_lrdfp.ContactName
     /\ DiffFields(m_relay, m_lrdfp) = {})
        => Val(m_res) = TRUE

C5_Witness ==
    /\ ~IsNil(m_res)
    /\ m_relay.Contact = Chars("B", "O", "B")
    /\ m_lrdfp.ContactName = Chars("B", "o", "b")
    /\ DiffFields(m_relay, m_lrdfp) = {}
    /\ Val(m_res) = TRUE

\* ------------------------------------------------------------------------
\* Properties of extractNewAndUpdatedRelays (SpecDelta)
\* ------------------------------------------------------------------------

HasFingerprint(arr, fp) == \E j \in 1..Len(arr) : arr[j].Fingerprint = fp

\* The record of previous that stands for a fingerprint: its last occurrence
\* (the only one when fingerprints are unique within a snapshot).
Corresponding(arr, fp) ==
    arr[CHOOSE j \in 1..Len(arr) :
            /\ arr[j].Fingerprint = fp
            /\ \A k \in (j + 1)..Len(arr) : arr[k].Fingerprint # fp]

\* C7: the result holds every record of current whose fingerprint is absent
\* from previous, and every record of current whose fingerprint is in
\* previous with a record that is not deeply equal to it.
C7_DeltaNoFalseNegatives ==
    ~IsNil(d_res) =>
        \A i \in 1..Len(d_new) :
            LET n == d_new[i]
            IN  (\/ ~HasFingerprint(d_old, n.Fingerprint)
                 \/ /\ HasFingerprint(d_old, n.Fingerprint)
                    /\ Corresponding(d_old, n.Fingerprint) # n)
                    => n \in Range(Val(d_res))

C7_Witness ==
    /\ ~IsNil(d_res)
    /\ \E i, j, k \in 1..Len(d_new) :
          /\ ~HasFingerprint(d_old, d_new[i].Fingerprint)
          /\ HasFingerprint(d_old, d_new[j].Fingerprint)
          /\ Corresponding(d_old, d_new[j].Fingerprint) # d_new[j]
          /\ Corresponding(d_old, d_new[j].Fingerprint).Nickname = d_new[j].Nickname
          /\ HasFingerprint(d_old, d_new[k].Fingerprint)
          /\ Corresponding(d_old, d_new[k].Fingerprint) = d_new[k]
    /\ Len(Val(d_res)) = 2

\* C8: the result holds no record of current that previous holds too, fully
\* identical, under the same fingerprint; when current is previous plus one
\* record with a new fingerprint, the result is that one record.
C8_DeltaExcludesIdentical ==
    ~IsNil(d_res) =>
        /\ \A i \in 1..Len(d_new) :
              (\E j \in 1..Len(d_old) : d_old[j] = d_new[i])
                  => d_new[i] \notin Range(Val(d_res))
        /\ \A r \in DeltaRelays :
              (d_new = Append(d_old, r) /\ ~HasFingerprint(d_old, r.Fingerprint))
                  => Val(d_res) = <<r>>

\* ------------------------------------------------------------------------
\* Properties of processTorResponse and of the store (Spec)
\* ------------------------------------------------------------------------

\* The class of a relay against a cache entry, told from the fields
\* themselves: no entry, a differing comparable field, or the timestamp of
\* the document against RecordLastSeen of the entry.
SaidClass(r, e, dlts) ==
    IF e = NoEntry THEN "NEW"
    ELSE IF DiffFields(r, e) # {} THEN "CHANGED"
    ELSE IF dlts = e.RecordLastSeen THEN "UNCHANGED_FRESH"
    ELSE IF StrLess(dlts, e.RecordLastSeen) THEN "UNCHANGED_STALE"
    ELSE "FRESHNESS"

\* The relay the loop of processTorResponse is about to take.
AtRelay ==
    /\ pc = "relay"
    /\ idx <= Len(tor_response)
    /\ g_db # "nil"
    /\ allStringsInSetMatch(g_config.matchFlags, tor_response[idx].Flags)

NextClass ==
    LET r == [tor_response[idx] EXCEPT !.Contact = TrimSpace(@)]
    IN  SaidClass(r, LrdGet(lrd, r.Fingerprint), g_consensusDLTS)

\* The relay at hand is being written to the database.
InHand == pc \in {"upd", "ids", "ins", "add"}

HandClass ==
    SaidClass(Val(relay), LrdGet(lrd, Val(relay).Fingerprint), g_consensusDLTS)

\* C11: for a relay that differs from its cache entry in a comparable field,
\* one row is appended to TorRelays and every row stored before is left as it
\* was (the row of the cache entry among them): none overwritten, none
\* removed.
C11_ChangedAppendsOnly ==
    [][/\ AtRelay /\ NextClass = "CHANGED" => pc' = "ids" /\ torRelays' = torRelays
       /\ InHand /\ HandClass = "CHANGED" /\ pc # "ins" => torRelays' = torRelays
       /\ InHand /\ HandClass = "CHANGED" /\ pc = "ins"
          => /\ Len(torRelays') = Len(torRelays) + 1
             /\ SubSeq(torRelays', 1, Len(torRelays)) = torRelays
             /\ torRelays'[Len(torRelays')].fpid
                  = LrdGet(lrd, Val(relay).Fingerprint).ID_NodeFingerprints]_vars

C11_Witness ==
    /\ pc = "relay"
    /\ Len(events) > 0
    /\ LET e == events[Len(events)]
       IN  /\ e.class = "CHANGED"
           /\ Len(torRelays) = e.rows + 1
           /\ torRelays[e.entry.id].nick = e.entry.Nickname
           /\ torRelays[e.entry.id].RecordLastSeen = e.entry.RecordLastSeen
           /\ torRelays[e.rows + 1].nick # e.entry.Nickname

\* C12: a step adds a row to TorRelays only for a relay that has no cache
\* entry or differs from it in a comparable field; a relay that matches its
\* entry, whatever the timestamp, adds none.
C12_RowsOnlyByNewOrChanged ==
    [][Len(torRelays') # Len(torRelays)
          => /\ Len(torRelays') = Len(torRelays) + 1
             /\ pc = "ins"
             /\ HandClass \in {"NEW", "CHANGED"}]_vars

C12_Witness ==
    /\ pc = "done"
    /\ Len(torRelays) = 1
    /\ \E i, j, k \in 1..Len(events) :
          /\ events[i].class = "UNCHANGED_FRESH"
          /\ events[j].class = "FRESHNESS"
          /\ events[k].class = "NEW"

\* C13 as stated: a step changes the address rows only for a relay that
\* differs from its cache entry or that matches it with a later timestamp.
C13_AddressesOnlyByFreshnessOrChanged ==
    [][ipRows' # ipRows => InHand /\ HandClass \in {"FRESHNESS", "CHANGED"}]_vars

\* C13, amended: a step changes the address rows only for a relay that has no
\* cache entry, that differs from its cache entry, or that matches it with a
\* later timestamp; a relay that matches its entry with an equal or an
\* earlier timestamp changes none.
C13_AddressesNotByUnchanged ==
    [][/\ ipRows' # ipRows
          => /\ pc \in {"add", "upd"}
             /\ HandClass \in {"NEW", "FRESHNESS", "CHANGED"}
             /\ pc = "upd" <=> HandClass = "FRESHNESS"
       /\ AtRelay /\ NextClass \in {"UNCHANGED_FRESH", "UNCHANGED_STALE"}
          => ipRows' = ipRows /\ pc' = "relay"]_vars

\* A relay without a cache entry has had its addresses recorded.
C13_Witness ==
    /\ pc = "relay"
    /\ Len(events) > 0
    /\ LET e == events[Len(events)]
       IN  /\ e.class = "NEW"
           /\ e.entry = NoEntry
           /\ Len(e.relay.Or_addresses) > 0
           /\ \A c \in Range(AddressCalls(e.relay)) :
                 HasAddress(ipRows, c[1], torRelays[e.rows + 1].fpid, c[2])

\* C14: a relay that matches its cache entry with a timestamp equal to or
\* earlier than RecordLastSeen of the entry is passed over in one step that
\* leaves the rows of TorRelays (their number, their RecordLastSeen) and the
\* address rows as they were.
C14_UnchangedIsNoOp ==
    [][AtRelay /\ NextClass \in {"UNCHANGED_FRESH", "UNCHANGED_STALE"}
          => /\ pc' = "relay"
             /\ idx' = idx + 1
             /\ torRelays' = torRelays
             /\ ipRows' = ipRows]_vars

\* A document older than RecordLastSeen of the matching row has been read, and
\* has left the row as it was.
C14_Witness ==
    /\ pc = "done"
    /\ \E j \in 1..Len(events) :
          /\ events[j].class = "UNCHANGED_STALE"
          /\ Len(events[j].relay.Or_addresses) > 0
          /\ j = Len(events)
          /\ Len(torRelays) = events[j].rows
          /\ torRelays[events[j].entry.id].RecordLastSeen
                = events[j].entry.RecordLastSeen

\* ------------------------------------------------------------------------
\* Properties of the caches in main (SpecSched, Spec)
\* ------------------------------------------------------------------------

\* The places of the log where the document of a file was read.
Reads == {p \in 1..Len(oplog) : oplog[p][1] = "getConsensus"}

\* The places before p where the log has an entry of the tag for file i.
StepsBefore(p, tags, i) ==
    {q \in 1..(p - 1) : oplog[q][1] \in tags /\ oplog[q][2] = i}

\* C15: with an interval K of at least 1, all the caches (the value caches
\* and the cache of the latest relay data) have been initialized for the file
\* of index i, when its document is read, if and only if i mod K = 0; with
\* K = 1 that is every file.
C15_FullRebuildEveryKth ==
    g_config.ReInitCaches >= 1 =>
        \A p \in Reads :
            LET i == oplog[p][2]
            IN  StepsBefore(p, {"initializeCaches"}, i) # {}
                    <=> i % g_config.ReInitCaches = 0

\* An import under K = 2 has read its third file: the caches were initialized
\* for the files 0 and 2, and for file 1 they were not.
C15_Witness ==
    /\ g_config.ReInitCaches = 2
    /\ \E p \in Reads :
          /\ oplog[p][2] = 2
          /\ StepsBefore(p, {"initializeCaches"}, 2) # {}
          /\ StepsBefore(p, {"initializeCaches"}, 1) = {}
          /\ StepsBefore(p, {"reloadLRD"}, 1) # {}

\* The step of main for a file whose index is no multiple of the interval:
\* the else branch of line 407.
RefreshStep ==
    /\ pc = "loop"
    /\ pc' = "get"
    /\ g_config.ReInitCaches # 0
    /\ GoMod(num, g_config.ReInitCaches) # 0

\* An entry of the cache without its RecordLastSeen.
SansRLS(e) == [e EXCEPT !.RecordLastSeen = ""]

\* The rows of TorRelays inserted no later than a timestamp.
RowsAsOf(asOf) ==
    {i \in 1..Len(torRelays) : StrLeq(torRelays[i].RecordTimeInserted, asOf)}

C17_IntervalAtLeastOne == pc = "loop" => g_config.ReInitCaches >= 1

\* C18: when the document of a file is read (and, from the second file on,
\* reduced to the relays that are new or updated), the caches have been
\* prepared for that file exactly once, by initializeCaches or by the reload
\* of the latest relay data, with the timestamp of that file.
C18_SchedulerOncePerSnapshot ==
    \A p \in Reads :
        LET steps == StepsBefore(p, {"initializeCaches", "reloadLRD"}, oplog[p][2])
        IN  /\ Cardinality(steps) = 1
            /\ \A q \in steps : oplog[q][3] = oplog[p][3]

\* The latest row of a fingerprint in the store.
LatestRowOf(fp) == CHOOSE i \in RowsOf(fp) : \A j \in RowsOf(fp) : j <= i

\* C19: when processTorResponse has dealt with a relay by writing to the
\* store (a row inserted for a relay that is new or changed, RecordLastSeen
\* advanced for one seen again later), the entry of the cache for its
\* fingerprint is the latest row of the fingerprint in the store: its id, its
\* fields and its RecordLastSeen.
C19_CacheFollowsStore ==
    pc = "relay" /\ idx > 1 /\ events # <<>> =>
        LET e == events[Len(events)]
            fp == e.relay.Fingerprint
        IN  e.snap = Len(snaps) /\ e.class \in {"NEW", "CHANGED", "FRESHNESS"} =>
                /\ fp \in DOMAIN lrd
                /\ lrd[fp] = EntryOfRow(dict, torRelays, LatestRowOf(fp))

\* C20: the address rows have at most one row for a fingerprint, a role and
\* an address, whatever was reconciled; a changed relay whose addresses are
\* recorded adds no second row for them.
C20_OneRowPerAddress ==
    \A i, j \in 1..Len(ipRows) :
        /\ ipRows[i].role = ipRows[j].role
        /\ ipRows[i].fpid = ipRows[j].fpid
        /\ ipRows[i].addr = ipRows[j].addr
        => i = j

\* A relay was found changed and its new row and its addresses are written;
\* an OR address of it had been recorded for its fingerprint before, and the
\* row of that address is now last seen with the changed relay.
C20_Witness ==
    /\ pc = "relay"
    /\ events # <<>>
    /\ LET e == events[Len(events)]
       IN  /\ e.class = "CHANGED"
           /\ Len(torRelays) = e.rows + 1
           /\ \E i \in 1..Len(ipRows) :
                 /\ ipRows[i].role = "Or"
                 /\ ipRows[i].fpid = torRelays[Len(torRelays)].fpid
                 /\ ipRows[i].addr \in Range(e.relay.Or_addresses)
                 /\ StrLess(ipRows[i].RecordTimeInserted, e.dlts)
                 /\ ipRows[i].RecordLastSeen = e.dlts

\* ------------------------------------------------------------------------
\* Properties of the rows of the store (Spec)
\* ------------------------------------------------------------------------

\* C21: no step removes an address row or changes the fingerprint, the role,
\* the address or the time of insertion of one, and no step sets the last
\* seen time of an address row to an earlier time, in whatever order of
\* timestamps the documents are read.
C21_AddressAppendAdvanceOnly ==
    [][/\ Len(ipRows') >= Len(ipRows)
       /\ \A i \in 1..Len(ipRows) :
             /\ ipRows'[i].role = ipRows[i].role
             /\ ipRows'[i].fpid = ipRows[i].fpid
             /\ ipRows'[i].addr = ipRows[i].addr
             /\ ipRows'[i].RecordTimeInserted = ipRows[i].RecordTimeInserted
             /\ StrLeq(ipRows[i].RecordLastSeen, ipRows'[i].RecordLastSeen)]_vars

\* A relay was reconciled from a document older than the last one that had an
\* OR address of it, and without that address: the row of the address is
\* there while another address of the relay is not, and a row of an address
\* the relay has is last seen later than the document.
C21_Witness ==
    /\ pc = "relay"
    /\ events # <<>>
    /\ LET e == events[Len(events)]
       IN  /\ e.class \in {"NEW", "CHANGED", "FRESHNESS"}
           /\ e.snap = Len(snaps)
           /\ \E i \in 1..Len(ipRows) :
                 /\ TextOf(dict, "fingerprint", ipRows[i].fpid) = e.relay.Fingerprint
                 /\ ipRows[i].role = "Or"
                 /\ ipRows[i].addr \in Range(e.relay.Or_addresses)
                 /\ StrLess(e.dlts, ipRows[i].RecordLastSeen)
           /\ \E i \in 1..Len(ipRows) :
                 /\ TextOf(dict, "fingerprint", ipRows[i].fpid) = e.relay.Fingerprint
                 /\ ipRows[i].role = "Or"
                 /\ ipRows[i].addr \notin Range(e.relay.Or_addresses)

\* The fingerprints of the documents.
Fingerprints == {"A", "B"}

\* The relays of a fingerprint for which a row was due and has been inserted:
\* those handed to the database logic without a cache entry, or with one
\* that a comparable field differs from.
RowsDue(fp) ==
    {i \in 1..Len(events) :
        /\ events[i].relay.Fingerprint = fp
        /\ events[i].class \notin {"FILTERED", "PRINTED"}
        /\ SaidClass(events[i].relay, events[i].entry, events[i].dlts)
               \in {"NEW", "CHANGED"}
        /\ i < Len(events) \/ pc \notin {"ids", "ins"}}

\* C22, as stated: TorRelays has at most one row of a fingerprint.
C22_OneRowPerFingerprint == \A fp \in Fingerprints : Cardinality(RowsOf(fp)) <= 1

\* C22, amended: a fingerprint has at most one id in the table of the
\* fingerprints, which all its rows carry, and TorRelays has one row of it for
\* every time a relay of it was found new or changed.
C22_OneIdAndOneRowPerChange ==
    /\ \A i, j \in 1..Len(dict["fingerprint"]) :
          dict["fingerprint"][i] = dict["fingerprint"][j] => i = j
    /\ \A i \in 1..Len(torRelays) : torRelays[i].fpid \in 1..Len(dict["fingerprint"])
    /\ \A fp \in Fingerprints : Cardinality(RowsOf(fp)) = Cardinality(RowsDue(fp))

\* A relay was stored and later found changed: two rows of its fingerprint,
\* both with the one id of the fingerprint.
C22_Witness ==
    /\ pc = "done"
    /\ Cardinality(RowsOf("A")) = 2
    /\ \E i \in 1..Len(events) : events[i].class = "CHANGED"
    /\ \A i \in RowsOf("A") : torRelays[i].fpid = 1

\* C23: a row added to TorRelays has the timestamp of the document being
\* reconciled both as RecordTimeInserted and as RecordLastSeen, and no step
\* changes RecordTimeInserted of a row that is there.
C23_InsertedOnceWithDLTS ==
    [][/\ Len(torRelays') >= Len(torRelays)
       /\ \A i \in 1..Len(torRelays) :
             torRelays'[i].RecordTimeInserted = torRelays[i].RecordTimeInserted
       /\ \A i \in (Len(torRelays) + 1)..Len(torRelays') :
             /\ snaps # <<>>
             /\ torRelays'[i].RecordTimeInserted = snaps[Len(snaps)].dlts
             /\ torRelays'[i].RecordLastSeen = snaps[Len(snaps)].dlts
             /\ g_consensusDLTS = snaps[Len(snaps)].dlts]_vars

\* A row was inserted with the timestamp of its document as both times, and a
\* later document has advanced its RecordLastSeen: RecordTimeInserted is
\* still that of the first document.
C23_Witness ==
    /\ pc = "done"
    /\ \E i \in 1..Len(torRelays) :
          /\ StrLess(torRelays[i].RecordTimeInserted, torRelays[i].RecordLastSeen)
          /\ \E j \in 1..Len(events) :
                /\ events[j].class \in {"NEW", "CHANGED"}
                /\ events[j].rows = i - 1
                /\ events[j].dlts = torRelays[i].RecordTimeInserted
          /\ \E j \in 1..Len(events) :
                /\ events[j].class = "FRESHNESS"
                /\ events[j].entry.id = i
                /\ events[j].dlts = torRelays[i].RecordLastSeen

\* ------------------------------------------------------------------------
\* Properties of the value caches (SpecSched)
\* ------------------------------------------------------------------------

\* The process has ended.
Exited == pc \in {"done", "fatal", "crashed"}

\* C24: while the process runs, a text the value cache of a class holds stays
\* held, over the files of an import and the initializeCaches between them;
\* the texts value2id is called with are held after the call; and a table of
\* values gets a text only when the cache does not hold it, at its end, so
\* that no table has a text twice.
C24_MemoizedForTheProcess ==
    [][~Exited =>
          /\ \A c \in Classes :
                /\ memo[c] \subseteq memo'[c]
                /\ Len(dict'[c]) >= Len(dict[c])
                /\ SubSeq(dict'[c], 1, Len(dict[c])) = dict[c]
                /\ \A i \in (Len(dict[c]) + 1)..Len(dict'[c]) :
                      /\ dict'[c][i] \notin memo[c]
                      /\ dict'[c][i] \in memo'[c]
                /\ \A i, j \in 1..Len(dict'[c]) : dict'[c][i] = dict'[c][j] => i = j
          /\ pc = "ids" =>
                \A k \in 1..Len(IdCalls(Val(relay))) :
                    LET call == IdCalls(Val(relay))[k]
                    IN  call[2] # EmptyText(call[1]) => call[2] \in memo'[call[1]]]_vars

\* The caches have been initialized again for a later file of an import, and
\* the cache of the fingerprints still holds those the earlier files stored.
C24_Witness ==
    /\ pc = "get"
    /\ num >= 1
    /\ oplog[Len(oplog)][1] = "initializeCaches"
    /\ dict["fingerprint"] # <<>>
    /\ memo["fingerprint"] = Range(dict["fingerprint"])

\* ------------------------------------------------------------------------
\* Properties of the runs that fail or are ended (SpecFail)
\* ------------------------------------------------------------------------

\* The insert of a row has failed in this run.
ExecFailed == \E p \in 1..Len(oplog) : oplog[p][1] = "execFailed"

\* C25: once the insert of a row has failed, the run hands no further relay
\* to the database logic, of this document or of a later one, reads no
\* further document and writes nothing more: it only ends.
C25_InsertFailureIsFatal ==
    [][ExecFailed =>
          /\ pc' \in {"panic", "crashed"}
          /\ events' = events
          /\ snaps' = snaps
          /\ dbVars' = dbVars]_vars

\* The insert failed for a relay of the first file of an import of several,
\* and the process has ended with the later files unread.
C25_Witness ==
    /\ pc = "crashed"
    /\ ExecFailed
    /\ num + 1 < Len(filenames)
    /\ Len(snaps) = num + 1
    /\ torRelays = <<>>

\* The process was ended from outside.
Aborted == pc = "crashed" /\ oplog # <<>> /\ oplog[Len(oplog)][1] = "aborted"

\* The relays handed to the database logic whose work had been done, all of
\* it, when the process ended: every one but, possibly, the last.
WholeRecord(j) ==
    LET e == events[j]
        calls == Range(AddressCalls(cleanupRelayStruct(e.relay)))
    IN  IF SaidClass(e.relay, e.entry, e.dlts) \in {"NEW", "CHANGED"}
        THEN \* the row is not there, or it is there with all its addresses
             Len(torRelays) > e.rows =>
                 \A c \in calls :
                     HasAddress(ipRows, c[1], torRelays[e.rows + 1].fpid, c[2])
        ELSE IF SaidClass(e.relay, e.entry, e.dlts) = "FRESHNESS"
        THEN \* no address is advanced, or RecordLastSeen of the row is
             (\E c \in calls :
                 /\ HasAddress(ipRows, c[1], e.entry.ID_NodeFingerprints, c[2])
                 /\ ipRows[AddressIndex(ipRows, c[1], e.entry.ID_NodeFingerprints,
                                        c[2])].RecordLastSeen = e.dlts)
                 => StrLeq(e.dlts, torRelays[e.entry.id].RecordLastSeen)
        ELSE TRUE

\* C27: when the process is ended from outside, at whatever point, the store
\* holds whole records only: no row of a new or changed relay without the
\* rows of its addresses, and no address advanced for a relay seen again
\* whose RecordLastSeen is not.
C27_AbortLeavesWholeRecords ==
    Aborted => \A j \in 1..Len(events) : WholeRecord(j)

\* ------------------------------------------------------------------------
\* Properties of the loop over the files (SpecSched)
\* ------------------------------------------------------------------------

\* The relays of document k handed to processTorResponse so far, in order.
HandedOf(k) ==
    LET es == SelectSeq(events, LAMBDA e : e.snap = k)
    IN  [i \in 1..Len(es) |-> es[i].relay]

\* Document k has been gone through to its end.
SnapshotDone(k) ==
    \/ k < Len(snaps)
    \/ pc \in {"loop", "cleanup", "done"}
    \/ pc = "relay" /\ idx > Len(tor_response)

\* The relays of a document as processTorResponse takes them up.
Trimmed(relays) ==
    [i \in 1..Len(relays) |-> [relays[i] EXCEPT !.Contact = TrimSpace(@)]]

IsPrefix(s, t) == Len(s) <= Len(t) /\ s = SubSeq(t, 1, Len(s))

\* The relays of document k that are due for reconciliation: all of the
\* first document of a run, and from the second on those that
\* extractNewAndUpdatedRelays returns for the whole document before it and
\* the whole document k.
DueOf(k) ==
    IF snaps[k].num = 0 THEN snaps[k].relays
    ELSE extractNewAndUpdatedRelays(snaps[k - 1].relays, snaps[k].relays)

\* C28: in an import, the relays of the first document are all handed to
\* processTorResponse, and of every later document exactly those that are
\* new or updated against the whole document before it, in their order.
C28_DeltaAgainstFullPrevious ==
    \A k \in 1..Len(snaps) :
        /\ IsPrefix(HandedOf(k), Trimmed(DueOf(k)))
        /\ SnapshotDone(k) => HandedOf(k) = Trimmed(DueOf(k))

\* The third file of an import is done, and its relays were not those that
\* are new or updated against what was left of the second document: the
\* second document was the same as the first, the third differs.
C28_Witness ==
    /\ pc = "done"
    /\ Len(snaps) = 3
    /\ snaps[3].num = 2
    /\ snaps[2].kept = <<>>
    /\ snaps[2].relays # <<>>
    /\ HandedOf(3) # <<>>
    /\ HandedOf(3) # Trimmed(extractNewAndUpdatedRelays(snaps[2].kept, snaps[3].relays))

\* The timestamp the name of the file of index i gives.
StampOfFile(i) == Val(getConsensusDLTimestamp(g_config, filenames[i + 1], clock))

\* C29: in an import the documents are read in the order of filenames, one
\* per file and none twice: the k-th document read is that of index k - 1;
\* its timestamp is the one the name of that very file gives, and every relay
\* of it is handed to the database logic with that timestamp.
C29_FilesInOrderWithOwnDLTS ==
    /\ Len(snaps) <= Len(filenames)
    /\ \A k \in 1..Len(snaps) :
          /\ snaps[k].num = k - 1
          /\ snaps[k].dlts = StampOfFile(k - 1)
    /\ \A j \in 1..Len(events) : events[j].dlts = StampOfFile(events[j].snap - 1)
    /\ \A j \in 1..(Len(events) - 1) : events[j].snap <= events[j + 1].snap
    /\ pc = "done" => Len(snaps) = Len(filenames)

\* An import of three files is done: three documents were read, each with
\* the timestamp of its own file, all different, and relays of the second and
\* of the third were handed to the database logic.
C29_Witness ==
    /\ pc = "done"
    /\ Len(filenames) = 3
    /\ Len(snaps) = 3
    /\ StrLess(snaps[1].dlts, snaps[2].dlts)
    /\ StrLess(snaps[2].dlts, snaps[3].dlts)
    /\ \E j \in 1..Len(events) : events[j].snap = 2
    /\ \E j \in 1..Len(events) : events[j].snap = 3

\* ------------------------------------------------------------------------
\* Properties of the download time (SpecStamp)
\* ------------------------------------------------------------------------

\* main is about to take the timestamp of a file: filenames[0] at line 397,
\* filenames[num] at line 404.
AtStamp == pc \in {"first", "loop"}

FileAtStamp == IF pc = "first" THEN filenames[1] ELSE filenames[num + 1]

\* The time is given on the command line or taken from the file name.
StampInEffect == g_config.ExtractDLTfromFilename \/ Len(g_config.ConsensusDLT) > 0

\* The texts that may be the timestamp, and whether a format matches one.
Candidates ==
    IF g_config.ExtractDLTfromFilename THEN FindStamps(FileAtStamp, 1)
    ELSE <<g_config.ConsensusDLT>>

NoCandidateMatches ==
    \A i \in 1..Len(Candidates) :
        \A f \in Range(getTimeFormats(g_config.ConsensusDLT_fmt)) :
            IsNil(TimeParse(f, Candidates[i]))

\* C26: when the time is given or taken from the file name and no format
\* matches any candidate, main ends there: the timestamp, the caches and the
\* store are as they were, no document is read and no relay is handed over,
\* and nothing happens afterwards; when a format matches, the timestamp is
\* the time parsed and the system time is not read.
C26_NoTimestampIsFatal ==
    [][/\ AtStamp /\ StampInEffect /\ NoCandidateMatches =>
             /\ pc' = "fatal"
             /\ UNCHANGED <<g_consensusDLTS, lrd, memo, dbVars, events, snaps, oplog>>
       /\ AtStamp /\ StampInEffect /\ ~NoCandidateMatches =>
             /\ clock' = clock
             /\ \E i \in 1..Len(Candidates) :
                   \E f \in Range(getTimeFormats(g_config.ConsensusDLT_fmt)) :
                       /\ ~IsNil(TimeParse(f, Candidates[i]))
                       /\ g_consensusDLTS' = FormatDLTS(Val(TimeParse(f, Candidates[i])))
       /\ pc = "fatal" => UNCHANGED vars]_vars

\* The name of the second file of an import gives no timestamp: the first
\* document was reconciled, and main has ended with the timestamp of the first.
C26_Witness ==
    /\ pc = "fatal"
    /\ num = 1
    /\ Len(snaps) = 1
    /\ events # <<>>
    /\ g_consensusDLTS = snaps[1].dlts
    /\ filenames[2] \in BadFiles
    /\ oplog[Len(oplog)][1] \notin {"initializeCaches", "reloadLRD"}

\* C30: an import of several files with -consensus-download-time given ends
\* at once, with no timestamp taken, no cache loaded, no document read and
\* nothing stored; an import of several files without it goes on to the
\* first timestamp with the extraction from the file name turned on, and it
\* stays on.
C30_BulkRejectsOverride ==
    [][/\ pc = "main" /\ Len(glob) > 1 /\ Len(g_config.ConsensusDLT) > 0 =>
             /\ pc' = "fatal"
             /\ UNCHANGED <<g_consensusDLTS, lrd, memo, dbVars, events, snaps, oplog>>
       /\ pc = "main" /\ Len(glob) > 1 /\ Len(g_config.ConsensusDLT) = 0 =>
             /\ pc' = "first"
             /\ g_config'.ExtractDLTfromFilename
             /\ g_consensusDLTS' = <<>>
       /\ pc # "main" /\ Len(filenames) > 1 /\ pc' # "fatal" =>
             g_config'.ExtractDLTfromFilename]_vars

\* An import of two files with the time given has ended before anything was
\* done.
C30_Witness ==
    /\ pc = "fatal"
    /\ Len(filenames) > 1
    /\ Len(g_config.ConsensusDLT) > 0
    /\ g_consensusDLTS = <<>>
    /\ oplog = <<>>
    /\ snaps = <<>>
    /\ torRelays = <<>>

\* ------------------------------------------------------------------------
\* Properties of the imports with a filter, with and without the database
\* (SpecOpts)
\* ------------------------------------------------------------------------

\* Every flag of the filter is among the flags of the relay.
PassesFilter(r) == Range(g_config.matchFlags) \subseteq Range(r.Flags)

\* The classes processTorResponse gives a relay it reconciles.
ReconcileClasses ==
    {"NEW", "CHANGED", "FRESHNESS", "UNCHANGED_FRESH", "UNCHANGED_STALE"}

\* C31: processTorResponse reconciles a relay only if every flag of the
\* filter is among the flags of the relay, an empty filter letting every
\* relay through; for a relay that fails the filter the loop goes to the next
\* relay with no class given, and with the caches and the tables as they were.
C31_FilterBeforeReconcile ==
    [][pc = "relay" /\ idx <= Len(tor_response) =>
         LET r0 == tor_response[idx]
             e == events'[Len(events')]
         IN  /\ Len(events') = Len(events) + 1
             /\ e.relay.Fingerprint = r0.Fingerprint
             /\ PassesFilter(r0) <=> e.class # "FILTERED"
             /\ Len(g_config.matchFlags) = 0 => e.class # "FILTERED"
             /\ PassesFilter(r0) /\ g_db # "nil" => e.class \in ReconcileClasses
             /\ ~PassesFilter(r0) =>
                    /\ pc' = "relay"
                    /\ idx' = idx + 1
                    /\ relay' = Nil
                    /\ UNCHANGED <<cacheVars, dbVars, ids, oplog>>]_vars

\* A relay of a document failed the filter and another relay of the document
\* passed it and was recorded as new: the table has no row of the first.
C31_Witness ==
    /\ Len(g_config.matchFlags) > 0
    /\ \E i, j \in 1..Len(events) :
          /\ events[i].snap = events[j].snap
          /\ events[i].class = "FILTERED"
          /\ events[j].class = "NEW"
          /\ RowsOf(events[i].relay.Fingerprint) = {}
          /\ RowsOf(events[j].relay.Fingerprint) # {}

\* ------------------------------------------------------------------------
\* Properties of extractNewAndUpdatedRelays on its own (SpecDelta), continued
\* ------------------------------------------------------------------------

\* The strictly increasing choices of Len(s) positions of t.
Embeddings(s, t) ==
    {f \in [1..Len(s) -> 1..Len(t)] :
        \A i, j \in 1..Len(s) : i < j => f[i] < f[j]}

\* s is t with some of its elements left out.
IsSubsequence(s, t) == \E f \in Embeddings(s, t) : \A i \in 1..Len(s) : s[i] = t[f[i]]

\* C32: the call of extractNewAndUpdatedRelays returns records of the current
\* array in the order they have there, leaves the previous and the current
\* array as they were, and returns the current array when the previous one
\* is empty.
C32_DeltaIsSubsequence ==
    [][IsNil(d_res) /\ ~IsNil(d_res') =>
         /\ IsSubsequence(Val(d_res'), d_new)
         /\ d_old' = d_old
         /\ d_new' = d_new
         /\ Len(d_old) = 0 => Val(d_res') = d_new]_vars

\* Of three current records the call dropped the second, known and
\* identical, and returned the first and the third, which differ.
C32_Witness ==
    /\ ~IsNil(d_res)
    /\ Len(d_old) > 0
    /\ Len(d_new) = 3
    /\ d_new[2] \in Range(d_old)
    /\ d_new[1] # d_new[3]
    /\ Val(d_res) = <<d_new[1], d_new[3]>>

\* The run has no database: none is configured.
NoDatabase == ~g_config.DBEnabled

\* Nothing of the caches or of the store has been touched.
StoreUntouched ==
    /\ \A p \in 1..Len(oplog) : oplog[p][1] \in {"noCaches", "getConsensus"}
    /\ lrd = <<>>
    /\ memo = EmptyHeld
    /\ torRelays = <<>>
    /\ ipRows = <<>>
    /\ dict = EmptyTables
    /\ torQueries = <<>>

\* C33: an import without a database reads and filters every file of the
\* pattern and ends as a run that did so, with no cache built or read again
\* and nothing written: it does not panic on the way, and when it has ended
\* it has read as many documents as there are files.
C33_NoDatabaseImportsEveryFile ==
    NoDatabase =>
        /\ StoreUntouched
        /\ pc \notin {"panic", "crashed"}
        /\ pc = "done" => Len(snaps) = Len(filenames)

\* C33, the part of it that holds: an import without a database touches no
\* cache and no table as far as it gets, and a run that ends without a panic
\* has read every file.
C33_NoDatabaseTouchesNothing ==
    NoDatabase =>
        /\ StoreUntouched
        /\ pc = "done" => Len(snaps) = Len(filenames)

\* An import of several files without a database that read them all: the
\* caches are due for every file (-reinit-caches-every 1).
C33_Witness ==
    /\ NoDatabase
    /\ pc = "done"
    /\ Len(filenames) > 1
    /\ Len(snaps) = Len(filenames)
    /\ \E i \in 1..Len(events) : events[i].class = "PRINTED"

\* ------------------------------------------------------------------------
\* Properties of the runs (Spec), continued
\* ------------------------------------------------------------------------

\* C34: every row of TorRelays was last seen no earlier than it was inserted:
\* RecordTimeInserted <= RecordLastSeen.
C34_InsertedBeforeLastSeen ==
    \A i \in 1..Len(torRelays) :
        StrLeq(torRelays[i].RecordTimeInserted, torRelays[i].RecordLastSeen)

\* A row was seen again after it was inserted, and a later row of the same
\* fingerprint was inserted before the first was last seen.
C34_Witness ==
    \E i, j \in 1..Len(torRelays) :
        /\ i < j
        /\ torRelays[i].fpid = torRelays[j].fpid
        /\ StrLess(torRelays[i].RecordTimeInserted, torRelays[i].RecordLastSeen)
        /\ StrLess(torRelays[j].RecordTimeInserted, torRelays[i].RecordLastSeen)

\* The rows of the addresses of the Directory role.
IsDirRow(row) == row.role = "Di"

DirRows == SelectSeq(ipRows, IsDirRow)

\* The calls for the Directory role among the address calls of the relay at
\* hand.
DirCalls == {k \in 1..Len(work) : work[k][1] = "Di"}

\* C35: the Directory role is synchronized for one address of a relay at
\* most, and only for a Dir_address that is not empty: the address calls of
\* a relay, new, changed or only seen again, hold one call for the role when
\* its Dir_address is not empty and none when it is empty, and a row of the
\* role is inserted or updated only by that call.
C35_DirectoryOnlyWhenNotEmpty ==
    [][/\ pc' \in {"upd", "add"} =>
             /\ ~IsNil(relay')
             /\ Cardinality({k \in 1..Len(work') : work'[k][1] = "Di"})
                   = IF Val(relay').Dir_address # "" THEN 1 ELSE 0
       /\ DirRows' # DirRows =>
             /\ pc \in {"upd", "add"}
             /\ Val(relay).Dir_address # ""
             /\ work[widx] = <<"Di", Val(relay).Dir_address>>
             /\ DirCalls = {widx}]_vars

\* A new relay with Or addresses and no Dir_address was recorded, the relay
\* was seen again with a Dir_address, and the run is over: the Directory
\* role has the one row of the second.
C35_Witness ==
    /\ pc = "done"
    /\ Len(DirRows) = 1
    /\ \E i, j \in 1..Len(events) :
          /\ events[i].class = "NEW"
          /\ events[i].relay.Dir_address = ""
          /\ Len(events[i].relay.Or_addresses) > 0
          /\ events[j].class = "FRESHNESS"
          /\ events[j].relay.Fingerprint = events[i].relay.Fingerprint
          /\ events[j].relay.Dir_address = DirRows[1].addr

====
